---- MODULE Spec2Model ----
(***************************************************************************)
(* Address validation service: the sliding-window rate limiter             *)
(* (handlers.RateLimiter), the HTTP handler (AddressHandler), the          *)
(* validation service (AddressService) and the provider adapters.          *)
(* Two generations of the code live side by side in the repository: the    *)
(* slog-based pipeline and the zap-based pipeline; `variant` selects one.  *)
(***************************************************************************)
EXTENDS Integers, Sequences, FiniteSets, TLC

(***************************************************************************)
(* Bounds of the model.                                                    *)
(***************************************************************************)
NumThreads == 2
NumClients == 2
MaxN == 2
MaxWindow == 2
MaxTicks == 3
ExtraCalls == 2

DefaultMaxRequests == 10
DefaultTimeWindow == 60

Threads == 1..NumThreads
NoThread == 0
ClientIds == 1..NumClients
Variants == {"slog", "zap"}

VARIABLES
  variant,        \* which generation of the code is running
  maxRequests,    \* RateLimiter.maxRequests
  timeWindow,     \* RateLimiter.timeWindow (in clock units)
  requests,       \* RateLimiter.requests : map client -> sequence of times
  mu,             \* RateLimiter.mu : the thread holding the mutex, or NoThread
  clock,          \* the monotonic clock read by time.Now()
  pc,             \* per worker: position inside Allow
  ip,             \* per worker: the argument of Allow
  now,            \* per worker: local `now`
  validRequests,  \* per worker: local `validRequests`
  ret,            \* per worker: value returned by the last Allow
  entry,          \* per worker: rl.requests as it was when the lock was taken
  history,        \* completed decisions of Allow, in decision order
  requireHTTPS,   \* InfraConfig.IsHttpSecure / Config.RequireHTTPS
  geofence,       \* MapConfig / GeofenceConfig: unit and maxDistance
  hpc,            \* position of the request being handled
  clientIP,       \* handler local `clientIP`
  address,        \* req.Address as decoded from the body
  clean,          \* service local `cleanAddress`
  resp,           \* what the external provider answered
  result,         \* the AddressValidationResult being built
  err,            \* the error returned next to the result
  status,         \* HTTP status written by the handler
  outcome,        \* how the request ended
  trace,          \* steps the request has gone through, in order
  req,            \* the *http.Request: path, method, TLS state, body syntax
  ctxDone,        \* the request context has been cancelled or has expired
  calc,           \* the distance computations made for the request, in order
  env,            \* the process environment: variable name -> value
  boot,           \* position of main in the startup sequence
  infraConfig,    \* InfraConfig (Config.RequireHTTPS in the slog-based code)
  loggerConfig,   \* LoggerConfig
  rateLimitConfig \* RateLimitConfig

limiterVars == <<maxRequests, timeWindow, requests, mu, clock, pc, ip, now,
                 validRequests, ret, entry, history>>

workerVars == <<mu, pc, ip, now, validRequests, ret, entry, history>>

pipeVars == <<requireHTTPS, geofence, hpc, clientIP, address, clean, resp,
              result, err, status, outcome, trace, req, ctxDone, calc>>

bootVars == <<env, boot, infraConfig, loggerConfig, rateLimitConfig>>

vars == <<variant, limiterVars, pipeVars, bootVars>>

(***************************************************************************)
(* Go map semantics: reading a missing key yields the nil slice.           *)
(***************************************************************************)
EmptyMap == [c \in {} |-> <<>>]

\* a lookup that ignores the key: every client shares one entry
MapGetAnyClient(m, c) ==
  IF DOMAIN m = {} THEN <<>> ELSE m[CHOOSE x \in DOMAIN m : TRUE]

MapGet(m, c) == IF c \in DOMAIN m THEN m[c] ELSE <<>>

MapPut(m, c, v) == [x \in (DOMAIN m) \cup {c} |-> IF x = c THEN v ELSE m[x]]

(***************************************************************************)
(* The prune loop of Allow: range over the stored times, keep those with   *)
(* now.Sub(t) <= rl.timeWindow, appending in order.                        *)
(***************************************************************************)
RECURSIVE PruneLoop(_, _, _)
PruneLoop(stored, nowv, window) ==
  IF stored = <<>> THEN <<>>
  ELSE IF nowv - Head(stored) <= window
       THEN <<Head(stored)>> \o PruneLoop(Tail(stored), nowv, window)
       ELSE PruneLoop(Tail(stored), nowv, window)

PruneKeepAll(stored, nowv, window) == stored

PruneStrict(stored, nowv, window) ==
  SelectSeq(stored, LAMBDA t : nowv - t < window)

PruneRequests(stored, nowv, window) == PruneLoop(stored, nowv, window)

\* rl.requests[ip] = validRequests
StoreEvictEmpty(m, c, v) ==
  IF v = <<>> THEN [x \in (DOMAIN m) \ {c} |-> m[x]] ELSE MapPut(m, c, v)

StoreBack(m, c, v) == MapPut(m, c, v)

\* len(validRequests) >= int(rl.maxRequests)
LimitExceededOffByOne(valid, maxReq) == Len(valid) > maxReq

LimitExceeded(valid, maxReq) == Len(valid) >= maxReq

\* rl.mu.Lock() returns only when no other goroutine holds the mutex
CanLockNoMutex(t) == TRUE

CanLock(t) == mu = NoThread

\* The clock advances in steps of half a window (rounded up).
TickUnit == (timeWindow + 1) \div 2

CallBudget == maxRequests + ExtraCalls

Configs == (1..MaxN) \X (1..MaxWindow)

\* RateLimitConfig{MaxRequests: 10, TimeWindow: 60 * time.Second}
DefaultConfig == <<DefaultMaxRequests, DefaultTimeWindow>>

(***************************************************************************)
(* Strings are sequences of one-character strings.                         *)
(***************************************************************************)
UpperLetters ==
  <<"A","B","C","D","E","F","G","H","I","J","K","L","M",
    "N","O","P","Q","R","S","T","U","V","W","X","Y","Z">>

LowerLetters ==
  <<"a","b","c","d","e","f","g","h","i","j","k","l","m",
    "n","o","p","q","r","s","t","u","v","w","x","y","z">>

Digits == {"0","1","2","3","4","5","6","7","8","9"}

Range(f) == {f[i] : i \in DOMAIN f}

\* \s of Go's regexp and the ASCII part of unicode.IsSpace
WhiteSpace == {" ", "\t", "\n", "\r", "\f"}

\* \w of Go's regexp: [0-9A-Za-z_]
WordChars == Range(UpperLetters) \cup Range(LowerLetters) \cup Digits \cup {"_"}

\* strings.ToLower, one character
LowerChar(ch) ==
  IF \E i \in DOMAIN UpperLetters : UpperLetters[i] = ch
  THEN LowerLetters[CHOOSE i \in DOMAIN UpperLetters : UpperLetters[i] = ch]
  ELSE ch

\* strings.ToLower
ToLower(str) == [i \in 1..Len(str) |-> LowerChar(str[i])]

\* strings.TrimSpace
RECURSIVE TrimLeft(_)
TrimLeft(str) ==
  IF str # <<>> /\ Head(str) \in WhiteSpace THEN TrimLeft(Tail(str)) ELSE str

RECURSIVE TrimRight(_)
TrimRight(str) ==
  IF str # <<>> /\ str[Len(str)] \in WhiteSpace
  THEN TrimRight(SubSeq(str, 1, Len(str) - 1))
  ELSE str

TrimSpace(str) == TrimRight(TrimLeft(str))

\* regexp.MustCompile(`\s+`).ReplaceAllString(str, " ")
\* (each maximal run of white space becomes one space: the first character
\* of a run is kept as " ", the others are dropped)
CollapseSpaces(str) ==
  LET kept == SelectSeq([i \in 1..Len(str) |-> i],
                        LAMBDA i : \/ str[i] \notin WhiteSpace
                                   \/ i = 1
                                   \/ str[i - 1] \notin WhiteSpace)
  IN  [k \in 1..Len(kept) |->
         IF str[kept[k]] \in WhiteSpace THEN " " ELSE str[kept[k]]]

\* pattern.ReplaceAllString(str, "") for a one-character class
RemoveChars(str, class) == SelectSeq(str, LAMBDA ch : ch \notin class)

\* the class [<>{}[\];'"\\] of the slog-based sanitizer
SpecialChars == {"<", ">", "{", "}", "[", "]", ";", "'", "\"", "\\"}

\* the complement of the class [^\w\s,.-] of the zap-based sanitizer
AllowedChars == WordChars \cup WhiteSpace \cup {",", ".", "-"}

MaxAddressLen == 200

\* services.sanitizeAddress of the slog-based service
SanitizeSlog(str) ==
  LET cleaned == TrimSpace(RemoveChars(str, SpecialChars)) IN
    IF Len(cleaned) > MaxAddressLen
    THEN SubSeq(cleaned, 1, MaxAddressLen)
    ELSE cleaned

\* services.sanitizeAddress of the zap-based service
SanitizeZap(str) ==
  SelectSeq(CollapseSpaces(TrimSpace(str)), LAMBDA ch : ch \in AllowedChars)

sanitizeAddress(v, str) == IF v = "slog" THEN SanitizeSlog(str) ELSE SanitizeZap(str)

\* cleanAddress == "" (slog) ; cleanAddress == "" || cleanAddress == " " (zap)
IsEmptyAddress(v, str) ==
  IF v = "slog" THEN str = <<>> ELSE str = <<>> \/ str = <<" ">>

(***************************************************************************)
(* The threat detector of the slog-based service.  The pattern uses the    *)
(* backreference \2, which Go's regexp syntax (RE2) rejects, so            *)
(* regexp.MustCompile panics instead of returning a matcher.               *)
(***************************************************************************)
SuspiciousPatternSyntax == [backreference |-> TRUE]

\* regexp.MustCompile: TRUE when a matcher is returned, FALSE when it panics
MustCompile(syntax) == ~syntax.backreference

HasSubstring(str, sub) ==
  \E i \in 1..(Len(str) - Len(sub) + 1) : SubSeq(str, i, i + Len(sub) - 1) = sub

HexDigits == Digits \cup {"a", "b", "c", "d", "e", "f"}

\* (.)\2{5} : one character followed by five more copies of it
HasRepeatedRun(str) ==
  \E i \in 1..(Len(str) - 5) :
    /\ str[i] # "\n"
    /\ \A k \in 1..5 : str[i + k] = str[i]

\* 0x[0-9a-f]+
HasHexLiteral(str) ==
  \E i \in 1..(Len(str) - 2) :
    str[i] = "0" /\ str[i + 1] = "x" /\ str[i + 2] \in HexDigits

\* select\s.+\sfrom
HasSelectFrom(str) ==
  \E i \in 1..Len(str), k \in 1..Len(str) :
    /\ i + 5 <= Len(str)
    /\ SubSeq(str, i, i + 5) = <<"s","e","l","e","c","t">>
    /\ i + 6 <= Len(str) /\ str[i + 6] \in WhiteSpace
    /\ k >= i + 8 /\ k + 4 <= Len(str)
    /\ str[k] \in WhiteSpace
    /\ SubSeq(str, k + 1, k + 4) = <<"f","r","o","m">>
    /\ \A m \in (i + 7)..(k - 1) : str[m] # "\n"

\* var\s | let\s | const\s
HasDeclaration(str) ==
  \E kw \in {<<"v","a","r">>, <<"l","e","t">>, <<"c","o","n","s","t">>},
     ws \in WhiteSpace : HasSubstring(str, kw \o <<ws>>)

\* what the pattern of isSuspicious describes, case-insensitively
MatchesSuspiciousPattern(str) ==
  LET low == ToLower(str) IN
    \/ HasRepeatedRun(low)
    \/ HasHexLiteral(low)
    \/ HasSelectFrom(low)
    \/ HasSubstring(low, <<"s","c","r","i","p","t">>)
    \/ HasSubstring(low, <<"a","l","e","r","t","(">>)
    \/ HasSubstring(low, <<"f","u","n","c","t","i","o","n">>)
    \/ HasDeclaration(low)

\* services.isSuspicious: "panic", or the verdict of the matcher
isSuspicious(str) ==
  IF ~MustCompile(SuspiciousPatternSyntax) THEN "panic"
  ELSE IF MatchesSuspiciousPattern(str) THEN "suspicious" ELSE "clean"

(***************************************************************************)
(* Results, errors and the geofence.                                       *)
(***************************************************************************)
NilError == "<nil>"
ErrEmptyAddress == "address is empty"
ErrSuspiciousPattern == "suspicious address detected"
ErrOutsideGeofence == "address outside allowed geographic area"

\* the zero value of ports.AddressValidationResult with IsValid: false
EmptyResult ==
  [isValid |-> FALSE, formattedAddress |-> "", latitude |-> 0, longitude |-> 0,
   inRange |-> FALSE, error |-> ""]

\* Coordinates in units of 1e-4 degree.
Bronx == [lat |-> 408448, lng |-> -738648]
Manhattan == [lat |-> 407128, lng |-> -740060]
NearBronx == [lat |-> 408700, lng |-> -738648]
Origin == [lat |-> 0, lng |-> 0]
Locations == {Bronx, Manhattan, NearBronx}

Abs(x) == IF x < 0 THEN -x ELSE x

\* c := 2 * atan2(sqrt(a), sqrt(1-a)) with
\* a := sin^2(dLat/2) + cos(lat1)*cos(lat2)*sin^2(dLng/2), in 1e-6 radian.
\* With dLat = dLng = 0 both sines are 0, so a = 0 and c = atan2(0, 1) = 0
\* whatever the latitudes are.  The other values are the formula evaluated
\* for the pairs of locations above; a is even in dLat and dLng, and for
\* these pairs the differences determine the two latitudes.
HaversineAngleNeverZero(dLat, dLng) ==
  CASE dLat = 0 /\ dLng = 0 -> 1
    [] Abs(dLat) = 1320 /\ Abs(dLng) = 1412 -> 2965
    [] Abs(dLat) = 252 /\ dLng = 0 -> 440
    [] Abs(dLat) = 1572 /\ Abs(dLng) = 1412 -> 3318
    [] Abs(dLat) = 408448 /\ Abs(dLng) = 738648 -> 1358986
    [] Abs(dLat) = 407128 /\ Abs(dLng) = 740060 -> 1360394
    [] Abs(dLat) = 408700 /\ Abs(dLng) = 738648 -> 1359067

HaversineAngle(dLat, dLng) ==
  CASE dLat = 0 /\ dLng = 0 -> 0
    [] Abs(dLat) = 1320 /\ Abs(dLng) = 1412 -> 2965
    [] Abs(dLat) = 252 /\ dLng = 0 -> 440
    [] Abs(dLat) = 1572 /\ Abs(dLng) = 1412 -> 3318
    [] Abs(dLat) = 408448 /\ Abs(dLng) = 738648 -> 1358986
    [] Abs(dLat) = 407128 /\ Abs(dLng) = 740060 -> 1360394
    [] Abs(dLat) = 408700 /\ Abs(dLng) = 738648 -> 1359067

\* dLat := lat2Rad - lat1Rad; dLng := lng2Rad - lng1Rad; ... c
CentralAngle(latA, lngA, latB, lngB) ==
  HaversineAngle(latB - latA, lngB - lngA)

\* Earth radii in units of 0.1 (km or mi).
earthRadiusKm == 63710
earthRadiusMi == 39588

\* radius * c in units of 1e-4 (km or mi), computed in two parts to stay
\* inside 32-bit integers
ArcLength(radius, angle) ==
  radius * (angle \div 1000) + (radius * (angle % 1000)) \div 1000

DistanceScale == 10000

UnitKm == <<"k", "m">>
UnitMi == <<"m", "i">>

\* the radius services.calculateDistance multiplies c by:
\* if strings.ToLower(unit) == "mi" { earthRadiusMi } else { earthRadiusKm }
ServiceRadius(unit) ==
  IF ToLower(unit) = UnitMi THEN earthRadiusMi ELSE earthRadiusKm

\* the radius GoogleMapsAdapter.calculateDistance multiplies c by:
\* if gma.config.Geofence.DistanceUnit == "km" { earthRadiusKm } else { earthRadiusMi }
AdapterRadiusMilesOnly(unit) == earthRadiusMi

AdapterRadius(unit) ==
  IF unit = UnitKm THEN earthRadiusKm ELSE earthRadiusMi

\* services.calculateDistance, in units of 1e-4 (km or mi)
calculateDistance(latA, lngA, latB, lngB, unit) ==
  ArcLength(ServiceRadius(unit), CentralAngle(latA, lngA, latB, lngB))

\* GoogleMapsAdapter.calculateDistance, in units of 1e-4 (km or mi)
AdapterCalculateDistance(latA, lngA, latB, lngB, unit) ==
  ArcLength(AdapterRadius(unit), CentralAngle(latA, lngA, latB, lngB))

\* distance <= MaxDistance (MaxDistance in units of 1e-4, like the distance)
isWithinGeofenceStrict(lat, lng, g) ==
  calculateDistance(lat, lng, g.center.lat, g.center.lng, g.unit)
    < g.maxDistance

isWithinGeofence(lat, lng, g) ==
  calculateDistance(lat, lng, g.center.lat, g.center.lng, g.unit)
    <= g.maxDistance

\* one distance computation as the service makes it for result res
ServiceCalc(res, g) ==
  [by |-> "service", unit |-> g.unit,
   point |-> [lat |-> res.latitude, lng |-> res.longitude],
   center |-> g.center, maxDistance |-> g.maxDistance,
   radius |-> ServiceRadius(g.unit),
   distance |-> calculateDistance(res.latitude, res.longitude,
                                  g.center.lat, g.center.lng, g.unit),
   inRange |-> isWithinGeofence(res.latitude, res.longitude, g)]

\* one distance computation as GoogleMapsAdapter makes it for result res
AdapterCalc(res, g) ==
  [by |-> "adapter", unit |-> g.unit,
   point |-> [lat |-> res.latitude, lng |-> res.longitude],
   center |-> g.center, maxDistance |-> g.maxDistance,
   radius |-> AdapterRadius(g.unit),
   distance |-> AdapterCalculateDistance(res.latitude, res.longitude,
                                         g.center.lat, g.center.lng, g.unit),
   inRange |-> AdapterCalculateDistance(res.latitude, res.longitude,
                                        g.center.lat, g.center.lng, g.unit)
                 <= g.maxDistance]

\* the computations on record after an adapter call that returned out:
\* only GoogleMapsAdapter computes a distance, and only for a match
AfterAdapterCall(v, out, g, log) ==
  IF v = "slog" /\ out.result.isValid
  THEN Append(log, AdapterCalc(out.result, g))
  ELSE log

(***************************************************************************)
(* The external provider and the two adapters.                             *)
(***************************************************************************)
ProviderErrors == {"context deadline exceeded", "OVER_QUERY_LIMIT"}
FormattedAddresses == {"123 Main St, Bronx, NY 10456, USA"}
NoResponse == [kind |-> "none"]

GranPremise == <<"P","R","E","M","I","S","E">>
GranRoute == <<"R","O","U","T","E">>
GranOther == <<"O","T","H","E","R">>

\* what maps.Client.Geocode can return
GeocodingResults ==
  [formatted : FormattedAddresses, location : Locations]

GeocodeResponses ==
  [kind : {"error"}, msg : ProviderErrors]
    \cup [kind : {"results"},
          results : {<<>>} \cup {<<r>> : r \in GeocodingResults}
                      \cup {<<r, q>> : r \in GeocodingResults,
                                       q \in {[formatted |-> f, location |-> Manhattan] :
                                                f \in FormattedAddresses}}]

\* what addressvalidation V1.ValidateAddress(req).Do() can return; a
\* response without Geocode.Location leaves the zero coordinates (Origin)
ValidateResponses ==
  [kind : {"error"}, msg : ProviderErrors]
    \cup [kind : {"noverdict"}]
    \cup {[kind |-> "verdict", granularity |-> gr, inputGranularity |-> ig,
           complete |-> co, formatted |-> geo[1], location |-> geo[2]] :
            gr \in {GranPremise, GranRoute, GranOther},
            ig \in {GranPremise, GranOther},
            co \in BOOLEAN,
            geo \in (FormattedAddresses \X {Bronx, NearBronx})
                      \cup {<<"", Origin>>}}

ProviderResponses(v) == IF v = "slog" THEN GeocodeResponses ELSE ValidateResponses

\* Go's byte-wise string comparison a >= b, for upper-case names
AsciiRank(ch) ==
  IF ch = "_" THEN Len(UpperLetters) + 1
  ELSE CHOOSE i \in DOMAIN UpperLetters : UpperLetters[i] = ch

RECURSIVE StringGE(_, _)
StringGE(a, b) ==
  IF b = <<>> THEN TRUE
  ELSE IF a = <<>> THEN FALSE
  ELSE IF Head(a) = Head(b) THEN StringGE(Tail(a), Tail(b))
  ELSE AsciiRank(Head(a)) > AsciiRank(Head(b))

\* GoogleMapsAdapter.ValidateAddress (slog-based pipeline)
GoogleMapsValidate(addr, r, g) ==
  IF addr = <<>>
  THEN [result |-> [EmptyResult EXCEPT !.error = "Address is required"],
        err |-> "address is required", called |-> FALSE]
  ELSE IF r.kind = "error"
  THEN [result |-> [EmptyResult EXCEPT
                      !.error = "Failed to validate address: " \o r.msg],
        err |-> "geocoding error: " \o r.msg, called |-> TRUE]
  ELSE IF Len(r.results) = 0
  THEN [result |-> [EmptyResult EXCEPT !.error = "Address not found"],
        err |-> "address not found", called |-> TRUE]
  ELSE LET first == r.results[1] IN
       [result |-> [isValid |-> TRUE,
                    formattedAddress |-> first.formatted,
                    latitude |-> first.location.lat,
                    longitude |-> first.location.lng,
                    inRange |->
                      AdapterCalculateDistance(first.location.lat,
                                               first.location.lng,
                                               g.center.lat, g.center.lng,
                                               g.unit)
                        <= g.maxDistance,
                    error |-> ""],
        err |-> NilError, called |-> TRUE]

\* the error text built from the verdict when the address is not valid
VerdictErrors(r) ==
  IF r.inputGranularity = GranOther /\ ~r.complete
  THEN "Input address was not recognized. Address is incomplete."
  ELSE IF r.inputGranularity = GranOther
  THEN "Input address was not recognized."
  ELSE IF ~r.complete
  THEN "Address is incomplete."
  ELSE "Address validation failed based on granularity."

\* GoogleAddressValidationAdapter.ValidateAddress (zap-based pipeline)
GoogleAddressValidationValidate(addr, r, g) ==
  IF r.kind = "error"
  THEN [result |-> [EmptyResult EXCEPT
                      !.error = "Failed to validate address: " \o r.msg],
        err |-> "address validation error: " \o r.msg, called |-> TRUE]
  ELSE IF r.kind = "noverdict"
  THEN [result |-> [EmptyResult EXCEPT !.error = "No validation result found."],
        err |-> "no validation result found", called |-> TRUE]
  ELSE LET valid == StringGE(r.granularity, GranPremise) /\ r.complete IN
       [result |-> [isValid |-> valid,
                    formattedAddress |-> r.formatted,
                    latitude |-> r.location.lat,
                    longitude |-> r.location.lng,
                    inRange |-> FALSE,
                    error |-> IF valid THEN "" ELSE VerdictErrors(r)],
        err |-> NilError, called |-> TRUE]

\* s.validator.ValidateAddress(ctx, cleanAddress)
AdapterValidateAddress(v, addr, r, g) ==
  IF v = "slog" THEN GoogleMapsValidate(addr, r, g)
  ELSE GoogleAddressValidationValidate(addr, r, g)

(***************************************************************************)
(* Configuration of the pipeline.                                          *)
(***************************************************************************)
\* MAP_MAX_DISTANCE / GEOFENCE_MAX_DISTANCE values, in units of 1e-4:
\* 2.0, and 2.8032, which is the distance in km from the center to NearBronx
MaxDistances ==
  {2 * DistanceScale,
   calculateDistance(NearBronx.lat, NearBronx.lng, Bronx.lat, Bronx.lng, UnitKm)}

\* LoadConfig keeps any GEOFENCE_DISTANCE_UNIT string; NewMapConfig keeps
\* only "km" and "mi".
ConfiguredUnits(v) ==
  IF v = "slog" THEN {UnitKm, UnitMi, <<"M", "I">>, <<"K", "M">>}
  ELSE {UnitKm, UnitMi}

GeofenceConfigs(v) ==
  [center : {Bronx}, maxDistance : MaxDistances, unit : ConfiguredUnits(v)]

DefaultGeofence(v) ==
  IF v = "slog"
  THEN [center |-> Bronx, maxDistance |-> 10 * DistanceScale, unit |-> UnitKm]
  ELSE [center |-> Bronx, maxDistance |-> 2 * DistanceScale, unit |-> UnitMi]

\* mux.HandleFunc("/validate", ...), mux.HandleFunc("/health", ...)
Paths == {"/validate", "/health"}

Methods == {"POST", "GET"}

\* what the server knows of a request when it calls the handler: the path,
\* the method, whether r.TLS is set, and whether the body is a JSON object
Requests ==
  [path : Paths, method : Methods, tls : BOOLEAN, wellFormed : BOOLEAN]

NoRequest == [path |-> "", method |-> "", tls |-> FALSE, wellFormed |-> FALSE]

(***************************************************************************)
(* The process environment and the configuration built from it at startup. *)
(* os.Getenv yields "" for a variable that is not set.                     *)
(***************************************************************************)
\* the environment with the variables of e set and every other variable the
\* constructors read not set
Setenv(e) ==
  [n \in {"GOOGLE_MAPS_API_KEY", "PORT", "REQUIRE_HTTPS", "ENVIRONMENT",
          "LEVEL", "ENCODING", "OUTPUT_PATH", "ERROR_PATH",
          "RATE_LIMIT_MAX_REQUESTS", "RATE_LIMIT_TIME_WINDOW_SECONDS",
          "GEOFENCE_MAX_DISTANCE", "GEOFENCE_DISTANCE_UNIT"} |->
     IF n \in DOMAIN e THEN e[n] ELSE <<>>]

\* the value of a string of decimal digits
RECURSIVE DecimalValue(_)
DecimalValue(ds) ==
  LET chars == <<"0","1","2","3","4","5","6","7","8","9">>
      last  == CHOOSE i \in DOMAIN chars : chars[i] = ds[Len(ds)]
  IN  IF ds = <<>> THEN 0
      ELSE 10 * DecimalValue(SubSeq(ds, 1, Len(ds) - 1)) + (last - 1)

\* strconv.Atoi: an optional sign, then one or more decimal digits and
\* nothing else; a number of more than 19 significant digits does not fit
\* the 64-bit int and is an error too.  (The strings drawn have at most 9 or
\* at least 20 significant digits.)
Atoi(str) ==
  LET signed == str # <<>> /\ Head(str) \in {"+", "-"}
      ds     == IF signed THEN Tail(str) ELSE str
      zeros  == Cardinality({i \in DOMAIN ds : \A j \in 1..i : ds[j] = "0"})
      syntax == ds # <<>> /\ \A i \in DOMAIN ds : ds[i] \in Digits
  IN  IF ~syntax \/ Len(ds) - zeros > 19
      THEN [ok |-> FALSE, val |-> 0]
      ELSE [ok |-> TRUE,
            val |-> IF Head(str) = "-" THEN 0 - DecimalValue(ds)
                    ELSE DecimalValue(ds)]

\* ParseStringToUint16: ParseInt, then num < 0 || num > 65535 is an error,
\* then uint16(num)
ParseStringToUint16(str) ==
  LET num == Atoi(str)
  IN  IF ~num.ok \/ num.val < 0 \/ num.val > 65535
      THEN [ok |-> FALSE, val |-> 0]
      ELSE [ok |-> TRUE, val |-> num.val % 65536]

\* strconv.ParseFloat on a plain decimal, sign digits [. digits], as a
\* multiple of 1/DistanceScale (the strings drawn have at most four
\* fractional digits and no exponent)
ParseFloat(str) ==
  LET signed == str # <<>> /\ Head(str) \in {"+", "-"}
      body   == IF signed THEN Tail(str) ELSE str
      dots   == {i \in DOMAIN body : body[i] = "."}
      dot    == IF dots = {} THEN Len(body) + 1 ELSE CHOOSE i \in dots : TRUE
      whole  == SubSeq(body, 1, dot - 1)
      frac   == SubSeq(body, dot + 1, Len(body))
      padded == frac \o SubSeq(<<"0", "0", "0", "0">>, 1, 4 - Len(frac))
      digits == whole \o frac
      syntax == digits # <<>> /\ \A i \in DOMAIN digits : digits[i] \in Digits
      mag    == DecimalValue(whole) * DistanceScale + DecimalValue(padded)
  IN  IF Cardinality(dots) > 1 \/ ~syntax \/ Len(frac) > 4
      THEN [ok |-> FALSE, val |-> 0]
      ELSE [ok |-> TRUE,
            val |-> IF signed /\ Head(str) = "-" THEN 0 - mag ELSE mag]

ENV_PRODUCTION == 0
ENV_DEVELOPMENT == 1

DefaultPort == 8080

\* the switch of NewInfraConfig: port 0, ports up to 1023 and port 65535
\* are refused
PortRefusedBelow1023(port) == port = 0 \/ port < 1023 \/ port = 65535

PortRefused(port) == port = 0 \/ port <= 1023 \/ port = 65535

\* config.IsHttpSecure = os.Getenv(REQUIRE_HTTPS) != "false"
InfraIsHttpSecureAnyCase(input) == ToLower(input) # <<"f","a","l","s","e">>

InfraIsHttpSecure(input) == input # <<"f","a","l","s","e">>

\* Config.NewInfraConfig: the defaults are Port 8080, IsHttpSecure true and
\* ENV_PRODUCTION; PORT replaces the port when it parses and is not refused;
\* ENVIRONMENT equal to ENV_DEVELOPMENT.ToString() selects ENV_DEVELOPMENT
InfraConfigOf(e) ==
  LET port == ParseStringToUint16(e["PORT"])
  IN  [port         |-> IF e["PORT"] = <<>> THEN DefaultPort
                        ELSE IF ~port.ok THEN DefaultPort
                        ELSE IF PortRefused(port.val) THEN DefaultPort
                        ELSE port.val,
       isHttpSecure |-> InfraIsHttpSecure(e["REQUIRE_HTTPS"]),
       environment  |-> IF e["ENVIRONMENT"]
                             = <<"D","E","V","E","L","O","P","M","E","N","T">>
                        THEN ENV_DEVELOPMENT ELSE ENV_PRODUCTION]

\* LoggerConfig{Level: "info", Encoding: "json", OutputPath: "stdout",
\*              ErrorPath: "stderr", IsDevelopment: false}
DefaultLoggerConfig ==
  [level         |-> <<"i","n","f","o">>,
   encoding      |-> <<"j","s","o","n">>,
   outputPath    |-> <<"s","t","d","o","u","t">>,
   errorPath     |-> <<"s","t","d","e","r","r">>,
   isDevelopment |-> FALSE]

\* pathPatterns.MatchString(input): under (?i), one of
\*   /[^\0\r\n]+    [a-zA-Z]:[\\/][^\0\r\n]*    stdout    stderr
\*   [a-z]+://[\w\-.:/]+
\* (an environment value holds no NUL)
MatchesPathPatterns(s) ==
  LET letters == Range(UpperLetters) \cup Range(LowerLetters)
      oneLine(from) == \A i \in from..Len(s) : s[i] \notin {"\r", "\n"}
  IN  \/ Len(s) >= 2 /\ s[1] = "/" /\ oneLine(2)
      \/ /\ Len(s) >= 3
         /\ s[1] \in letters /\ s[2] = ":" /\ s[3] \in {"\\", "/"}
         /\ oneLine(4)
      \/ ToLower(s) \in {<<"s","t","d","o","u","t">>,  \* "stdout"
                         <<"s","t","d","e","r","r">>}  \* "stderr"
      \/ \E k \in 1..Len(s) :
           /\ Len(s) >= k + 4
           /\ \A i \in 1..k : s[i] \in letters
           /\ s[k + 1] = ":" /\ s[k + 2] = "/" /\ s[k + 3] = "/"
           /\ \A i \in (k + 4)..Len(s) :
                s[i] \in WordChars \cup {"-", ".", ":", "/"}

\* strings.Contains(input, "..")
ContainsDotDot(s) ==
  \E i \in 1..(Len(s) - 1) : s[i] = "." /\ s[i + 1] = "."

\* setPath
SetPath(current, input) ==
  IF input = <<>> THEN current
  ELSE IF ~MatchesPathPatterns(input) THEN current
  ELSE IF ContainsDotDot(input) THEN current
  ELSE input

\* Config.NewLoggerConfig(environment): LEVEL is kept when it is one of the
\* fourteen names of the switch, ENCODING when it is "json" or "console"
LoggerConfigOf(e, environment) ==
  LET levels    == {<<"i","n","f","o">>,  \* "info"
                    <<"I","N","F","O">>,  \* "INFO"
                    <<"d","e","b","u","g">>,  \* "debug"
                    <<"D","E","B","U","G">>,  \* "DEBUG"
                    <<"w","a","r","n">>,  \* "warn"
                    <<"W","A","R","N">>,  \* "WARN"
                    <<"e","r","r","o","r">>,  \* "error"
                    <<"E","R","R","O","R">>,  \* "ERROR"
                    <<"d","p","a","n","i","c">>,  \* "dpanic"
                    <<"D","P","A","N","I","C">>,  \* "DPANIC"
                    <<"p","a","n","i","c">>,  \* "panic"
                    <<"P","A","N","I","C">>,  \* "PANIC"
                    <<"f","a","t","a","l">>, <<"F","A","T","A","L">>}
      encodings == {<<"j","s","o","n">>, <<"c","o","n","s","o","l","e">>}
  IN  [level         |-> IF e["LEVEL"] \in levels THEN e["LEVEL"]
                         ELSE DefaultLoggerConfig.level,
       encoding      |-> IF e["ENCODING"] \in encodings THEN e["ENCODING"]
                         ELSE DefaultLoggerConfig.encoding,
       outputPath    |-> SetPath(DefaultLoggerConfig.outputPath,
                                 e["OUTPUT_PATH"]),
       errorPath     |-> SetPath(DefaultLoggerConfig.errorPath,
                                 e["ERROR_PATH"]),
       isDevelopment |-> environment # ENV_PRODUCTION]

\* maxRequests, err := strconv.Atoi(input)
\* if err == nil && maxRequests > 0 { config.MaxRequests = uint(maxRequests) }
PositiveOrDefault(input, default) ==
  LET n == Atoi(input)
  IN  IF input # <<>> /\ n.ok /\ n.val > 0 THEN n.val ELSE default

\* the configuration of a process whose startup has completed
Booted ==
  /\ boot = "done"
  /\ env = Setenv(<<>>)
  /\ infraConfig = [port |-> DefaultPort, isHttpSecure |-> requireHTTPS,
                    environment |-> ENV_PRODUCTION]
  /\ loggerConfig = DefaultLoggerConfig
  /\ rateLimitConfig = [maxRequests |-> maxRequests, timeWindow |-> timeWindow]

\* No request is being handled.
PipelineIdle ==
  /\ hpc = "idle"
  /\ clientIP = 0
  /\ address = <<>>
  /\ clean = <<>>
  /\ resp = NoResponse
  /\ result = EmptyResult
  /\ err = NilError
  /\ status = 0
  /\ outcome = "none"
  /\ trace = <<>>
  /\ req = NoRequest
  /\ ctxDone = FALSE
  /\ calc = <<>>

(***************************************************************************)
(* NewRateLimiter: empty map, limits from the configuration.               *)
(***************************************************************************)
NewRateLimiter(cfg) ==
  /\ requests = EmptyMap
  /\ maxRequests = cfg[1]
  /\ timeWindow = cfg[2]
  /\ mu = NoThread

WorkersIdle ==
  /\ clock = 0
  /\ pc = [t \in Threads |-> "idle"]
  /\ ip = [t \in Threads |-> 1]
  /\ now = [t \in Threads |-> 0]
  /\ validRequests = [t \in Threads |-> <<>>]
  /\ ret = [t \in Threads |-> FALSE]
  /\ entry = [t \in Threads |-> EmptyMap]
  /\ history = <<>>

Init ==
  /\ variant \in Variants
  /\ \E cfg \in Configs : NewRateLimiter(cfg)
  /\ WorkersIdle
  /\ requireHTTPS = TRUE
  /\ geofence = DefaultGeofence(variant)
  /\ PipelineIdle
  /\ Booted

(***************************************************************************)
(* RateLimiter.Allow, one action per statement.                            *)
(***************************************************************************)
Started == Cardinality({t \in Threads : pc[t] # "idle"})

\* A worker calls Allow(c).
AllowCall(t, c) ==
  /\ pc[t] = "idle"
  /\ Len(history) + Started < CallBudget
  /\ pc' = [pc EXCEPT ![t] = "lock"]
  /\ ip' = [ip EXCEPT ![t] = c]
  /\ UNCHANGED <<variant, bootVars, pipeVars, maxRequests, timeWindow,
                 requests, mu, clock, now, validRequests, ret, entry,
                 history>>

\* rl.mu.Lock()
AllowLock(t) ==
  /\ pc[t] = "lock"
  /\ CanLock(t)
  /\ mu' = t
  /\ entry' = [entry EXCEPT ![t] = requests]
  /\ pc' = [pc EXCEPT ![t] = "now"]
  /\ UNCHANGED <<variant, bootVars, pipeVars, maxRequests, timeWindow,
                 requests, clock, ip, now, validRequests, ret, history>>

\* now := time.Now()
AllowNow(t) ==
  /\ pc[t] = "now"
  /\ now' = [now EXCEPT ![t] = clock]
  /\ pc' = [pc EXCEPT ![t] = "prune"]
  /\ UNCHANGED <<variant, bootVars, pipeVars, maxRequests, timeWindow,
                 requests, mu, clock, ip, validRequests, ret, entry, history>>

\* for _, t := range rl.requests[ip] { ... }
AllowPrune(t) ==
  /\ pc[t] = "prune"
  /\ validRequests' = [validRequests EXCEPT ![t] =
         PruneRequests(MapGet(requests, ip[t]), now[t], timeWindow)]
  /\ pc' = [pc EXCEPT ![t] = "store"]
  /\ UNCHANGED <<variant, bootVars, pipeVars, maxRequests, timeWindow,
                 requests, mu, clock, ip, now, ret, entry, history>>

\* rl.requests[ip] = validRequests
AllowStore(t) ==
  /\ pc[t] = "store"
  /\ requests' = StoreBack(requests, ip[t], validRequests[t])
  /\ pc' = [pc EXCEPT ![t] = "check"]
  /\ UNCHANGED <<variant, bootVars, pipeVars, maxRequests, timeWindow, mu,
                 clock, ip, now, validRequests, ret, entry, history>>

\* if len(validRequests) >= int(rl.maxRequests) { return false }
AllowReject(t) ==
  /\ pc[t] = "check"
  /\ LimitExceeded(validRequests[t], maxRequests)
  /\ ret' = [ret EXCEPT ![t] = FALSE]
  /\ history' = Append(history, [ip |-> ip[t], t |-> now[t], ok |-> FALSE])
  /\ pc' = [pc EXCEPT ![t] = "unlock"]
  /\ UNCHANGED <<variant, bootVars, pipeVars, maxRequests, timeWindow,
                 requests, mu, clock, ip, now, validRequests, entry>>

\* rl.requests[ip] = append(rl.requests[ip], now); return true
AllowAdmit(t) ==
  /\ pc[t] = "check"
  /\ ~LimitExceeded(validRequests[t], maxRequests)
  /\ requests' = MapPut(requests, ip[t],
                        Append(MapGet(requests, ip[t]), now[t]))
  /\ ret' = [ret EXCEPT ![t] = TRUE]
  /\ history' = Append(history, [ip |-> ip[t], t |-> now[t], ok |-> TRUE])
  /\ pc' = [pc EXCEPT ![t] = "unlock"]
  /\ UNCHANGED <<variant, bootVars, pipeVars, maxRequests, timeWindow, mu,
                 clock, ip, now, validRequests, entry>>

\* defer rl.mu.Unlock(); the locals go out of scope
AllowUnlock(t) ==
  /\ pc[t] = "unlock"
  /\ mu' = NoThread
  /\ pc' = [pc EXCEPT ![t] = "idle"]
  /\ now' = [now EXCEPT ![t] = 0]
  /\ validRequests' = [validRequests EXCEPT ![t] = <<>>]
  /\ entry' = [entry EXCEPT ![t] = EmptyMap]
  /\ UNCHANGED <<variant, bootVars, pipeVars, maxRequests, timeWindow,
                 requests, clock, ip, ret, history>>

\* Time passes.
Tick ==
  /\ clock + TickUnit <= MaxTicks * TickUnit
  /\ clock' = clock + TickUnit
  /\ UNCHANGED <<variant, bootVars, pipeVars, maxRequests, timeWindow,
                 requests, mu, pc, ip, now, validRequests, ret, entry,
                 history>>

Next ==
  \/ Tick
  \/ \E t \in Threads, c \in ClientIds : AllowCall(t, c)
  \/ \E t \in Threads : AllowLock(t)
  \/ \E t \in Threads : AllowNow(t)
  \/ \E t \in Threads : AllowPrune(t)
  \/ \E t \in Threads : AllowStore(t)
  \/ \E t \in Threads : AllowReject(t)
  \/ \E t \in Threads : AllowAdmit(t)
  \/ \E t \in Threads : AllowUnlock(t)

Spec == Init /\ [][Next]_vars

(***************************************************************************)
(* One client driver issuing its calls one after the other, against the    *)
(* small configurations and against the default configuration.             *)
(***************************************************************************)
BurstThreads == {1}
BurstClients == {1}

InitBurst ==
  /\ variant \in Variants
  /\ \E cfg \in Configs \cup {DefaultConfig} : NewRateLimiter(cfg)
  /\ WorkersIdle
  /\ requireHTTPS = TRUE
  /\ geofence = DefaultGeofence(variant)
  /\ PipelineIdle
  /\ Booted

NextBurst ==
  \/ Tick
  \/ \E t \in BurstThreads, c \in BurstClients : AllowCall(t, c)
  \/ \E t \in BurstThreads : AllowLock(t)
  \/ \E t \in BurstThreads : AllowNow(t)
  \/ \E t \in BurstThreads : AllowPrune(t)
  \/ \E t \in BurstThreads : AllowStore(t)
  \/ \E t \in BurstThreads : AllowReject(t)
  \/ \E t \in BurstThreads : AllowAdmit(t)
  \/ \E t \in BurstThreads : AllowUnlock(t)

SpecBurst == InitBurst /\ [][NextBurst]_vars

(***************************************************************************)
(* The request pipeline: AddressHandler.ValidateAddress calling            *)
(* RateLimiter.Allow and AddressService.ValidateAddress, which calls the   *)
(* adapter.  Requests are handled one after the other here; the            *)
(* interleaving of concurrent Allow calls is the subject of Spec.          *)
(***************************************************************************)
MaxBodyLen == 3

BodyAlphabet == {"a", " ", "#"}

BoundedStrings(n) == UNION {[1..k -> BodyAlphabet] : k \in 0..n}

ScriptInput ==
  <<"<","s","c","r","i","p","t",">","a","l","e","r","t","(","1",")",
    "<","/","s","c","r","i","p","t",">">>

Bodies ==
  BoundedStrings(MaxBodyLen)
    \cup {ScriptInput, <<"#", " ", "#", " ", "#">>, <<"a","a","a","a","a","a">>}

\* the X-Forwarded-For header: absent/empty (0) or a client identity
ForwardedFor == {0} \cup ClientIds

StatusOK == 200
StatusBadRequest == 400
StatusMethodNotAllowed == 405
StatusTooManyRequests == 429

configVars == <<variant, maxRequests, timeWindow, requireHTTPS, geofence>>

\* http.Error(w, ..., code); return
Reject(code, label) ==
  /\ status' = code
  /\ outcome' = label
  /\ hpc' = "done"

\* !h.rateLimiter.Allow(clientIP)
AdmittedAlways(allowed) == TRUE

Admitted(allowed) == allowed

\* if err != nil { return result, err }
ValidatorFailedIgnored(e) == FALSE

ValidatorFailed(e) == e # NilError

\* h.config.IsHttpSecure && r.TLS == nil
HTTPSViolatedNever(required, tls) == FALSE

HTTPSViolated(required, tls) == required /\ ~tls

\* The server accepts a request and the mux routes it by its path.
Receive ==
  /\ hpc = "idle"
  /\ \E r \in Requests :
       /\ req' = r
       /\ hpc' = IF r.path = "/health" THEN "health" ELSE "method"
  /\ UNCHANGED <<configVars, bootVars, ctxDone, calc, requests, clock,
                 workerVars, clientIP, address, clean, resp, result, err,
                 status, outcome, trace>>

\* the /health handler: w.WriteHeader(http.StatusOK); w.Write("OK")
HealthCheck ==
  /\ hpc = "health"
  /\ status' = StatusOK
  /\ outcome' = "Health"
  /\ hpc' = "done"
  /\ UNCHANGED <<configVars, bootVars, req, ctxDone, calc, requests, clock,
                 workerVars, clientIP, address, clean, resp, result, err,
                 trace>>

\* r.Method == http.MethodPost
MethodAllowedAny(m) == TRUE

MethodAllowed(m) == m = "POST"

\* if r.Method != http.MethodPost { 405 }
CheckMethod ==
  /\ hpc = "method"
  /\ IF ~MethodAllowed(req.method)
     THEN Reject(StatusMethodNotAllowed, "MethodNotAllowed")
     ELSE hpc' = "https" /\ UNCHANGED <<status, outcome>>
  /\ UNCHANGED <<configVars, bootVars, req, ctxDone, calc, requests, clock,
                 workerVars, clientIP, address, clean, resp, result, err,
                 trace>>

\* if h.config.IsHttpSecure && r.TLS == nil { 400 }
CheckHTTPS ==
  /\ hpc = "https"
  /\ IF HTTPSViolated(requireHTTPS, req.tls)
     THEN Reject(StatusBadRequest, "HTTPSRequired")
     ELSE hpc' = "identity" /\ UNCHANGED <<status, outcome>>
  /\ UNCHANGED <<configVars, bootVars, req, ctxDone, calc, requests, clock,
                 workerVars, clientIP, address, clean, resp, result, err,
                 trace>>

\* clientIP := r.RemoteAddr; if forwardedFor != "" { clientIP = forwardedFor }
Identify ==
  /\ hpc = "identity"
  /\ \E remoteAddr \in ClientIds, forwardedFor \in ForwardedFor :
       clientIP' = IF forwardedFor # 0 THEN forwardedFor ELSE remoteAddr
  /\ hpc' = "ratelimit"
  /\ UNCHANGED <<configVars, bootVars, req, ctxDone, calc, requests, clock,
                 workerVars, address, clean, resp, result, err, status,
                 outcome, trace>>

\* if !h.rateLimiter.Allow(clientIP) { 429 } : the whole of Allow
RateLimit ==
  /\ hpc = "ratelimit"
  /\ mu = NoThread
  /\ LET valid == PruneRequests(MapGet(requests, clientIP), clock, timeWindow)
         stored == StoreBack(requests, clientIP, valid)
         allowed == ~LimitExceeded(valid, maxRequests)
     IN  /\ requests' = IF allowed
                        THEN MapPut(stored, clientIP,
                                    Append(MapGet(stored, clientIP), clock))
                        ELSE stored
         /\ IF Admitted(allowed)
            THEN hpc' = "decode" /\ UNCHANGED <<status, outcome>>
            ELSE Reject(StatusTooManyRequests, "RateLimited")
  /\ trace' = Append(trace, IF ~LimitExceeded(
                                   PruneRequests(MapGet(requests, clientIP),
                                                 clock, timeWindow),
                                   maxRequests)
                            THEN "allow=true" ELSE "allow=false")
  /\ UNCHANGED <<configVars, bootVars, req, ctxDone, calc, clock, workerVars,
                 clientIP, address, clean, resp, result, err>>

\* json.NewDecoder(r.Body).Decode(&req)
DecodeBody ==
  /\ hpc = "decode"
  /\ \E body \in Bodies :
       IF req.wellFormed
       THEN /\ address' = body
            /\ hpc' = "sanitize"
            /\ UNCHANGED <<status, outcome>>
       ELSE /\ body = <<>>
            /\ UNCHANGED address
            /\ Reject(StatusBadRequest, "InvalidBody")
  /\ trace' = Append(trace, "decode")
  /\ UNCHANGED <<configVars, bootVars, req, ctxDone, calc, requests, clock,
                 workerVars, clientIP, clean, resp, result, err>>

\* cleanAddress := sanitizeAddress(address)
Sanitize ==
  /\ hpc = "sanitize"
  /\ clean' = sanitizeAddress(variant, address)
  /\ hpc' = "empty"
  /\ trace' = Append(trace, "sanitize")
  /\ UNCHANGED <<configVars, bootVars, req, ctxDone, calc, requests, clock,
                 workerVars, clientIP, address, resp, result, err, status,
                 outcome>>

\* if cleanAddress == "" ... { return {IsValid: false, Error: ...}, ErrEmptyAddress }
CheckEmpty ==
  /\ hpc = "empty"
  /\ IF IsEmptyAddress(variant, clean)
     THEN /\ result' = [EmptyResult EXCEPT !.error = ErrEmptyAddress]
          /\ err' = ErrEmptyAddress
          /\ outcome' = "EmptyAddress"
          /\ hpc' = "respond"
     ELSE /\ hpc' = IF variant = "slog" THEN "threat" ELSE "provider"
          /\ UNCHANGED <<result, err, outcome>>
  /\ UNCHANGED <<configVars, bootVars, req, ctxDone, calc, requests, clock,
                 workerVars, clientIP, address, clean, resp, status, trace>>

\* if isSuspicious(cleanAddress) { return ..., ErrSuspiciousPattern }
\* (slog-based service only); a panic unwinds the handler and the server
\* drops the connection without a response
CheckThreat ==
  /\ hpc = "threat"
  /\ LET verdict == isSuspicious(clean) IN
       IF verdict = "panic"
       THEN /\ outcome' = "Panic"
            /\ hpc' = "done"
            /\ UNCHANGED <<result, err>>
       ELSE IF verdict = "suspicious"
       THEN /\ result' = [EmptyResult EXCEPT !.error = ErrSuspiciousPattern]
            /\ err' = ErrSuspiciousPattern
            /\ outcome' = "SuspiciousInput"
            /\ hpc' = "respond"
       ELSE /\ hpc' = "provider"
            /\ UNCHANGED <<result, err, outcome>>
  /\ trace' = Append(trace, "threat")
  /\ UNCHANGED <<configVars, bootVars, req, ctxDone, calc, requests, clock,
                 workerVars, clientIP, address, clean, resp, status>>

\* result, err := s.validator.ValidateAddress(ctx, cleanAddress)
\* if err != nil { return result, err }
CallValidator ==
  /\ hpc = "provider"
  /\ \E r \in ProviderResponses(variant) :
       LET out == AdapterValidateAddress(variant, clean, r, geofence) IN
         /\ resp' = IF out.called THEN r ELSE NoResponse
         /\ trace' = IF out.called THEN Append(trace, "provider") ELSE trace
         /\ result' = out.result
         /\ err' = out.err
         /\ calc' = AfterAdapterCall(variant, out, geofence, calc)
         /\ IF ValidatorFailed(out.err)
            THEN outcome' = "ValidatorError" /\ hpc' = "respond"
            ELSE hpc' = "geofence" /\ UNCHANGED outcome
  /\ UNCHANGED <<configVars, bootVars, req, ctxDone, requests, clock,
                 workerVars, clientIP, address, clean, status>>

\* the error returned after the geofence step: return result, nil
GeofenceErrorOutside(inRange) ==
  IF inRange THEN NilError ELSE ErrOutsideGeofence

GeofenceError(inRange) == NilError

\* if result.IsValid { result.InRange = distance <= MaxDistance }
\* return result, nil
EvaluateGeofence ==
  /\ hpc = "geofence"
  /\ IF result.isValid
     THEN /\ result' = [result EXCEPT !.inRange =
                          isWithinGeofence(result.latitude, result.longitude,
                                           geofence)]
          /\ calc' = Append(calc, ServiceCalc(result, geofence))
          /\ trace' = Append(trace, "geofence")
     ELSE UNCHANGED <<result, calc, trace>>
  /\ err' = IF result.isValid THEN GeofenceError(result'.inRange) ELSE NilError
  /\ outcome' = "Validated"
  /\ hpc' = "respond"
  /\ UNCHANGED <<configVars, bootVars, req, ctxDone, requests, clock,
                 workerVars, clientIP, address, clean, resp, status>>

\* if err != nil { w.WriteHeader(400) }; json.NewEncoder(w).Encode(result)
Respond ==
  /\ hpc = "respond"
  /\ status' = IF err # NilError THEN StatusBadRequest ELSE StatusOK
  /\ hpc' = "done"
  /\ UNCHANGED <<configVars, bootVars, req, ctxDone, calc, requests, clock,
                 workerVars, clientIP, address, clean, resp, result, err,
                 outcome, trace>>

\* The handler has returned; the worker is free for the next request.
Finish ==
  /\ hpc = "done"
  /\ hpc' = "idle"
  /\ clientIP' = 0
  /\ address' = <<>>
  /\ clean' = <<>>
  /\ resp' = NoResponse
  /\ result' = EmptyResult
  /\ err' = NilError
  /\ status' = 0
  /\ outcome' = "none"
  /\ trace' = <<>>
  /\ req' = NoRequest
  /\ calc' = <<>>
  /\ UNCHANGED <<configVars, bootVars, ctxDone, requests, clock, workerVars>>

\* Time passes between requests.
TickBetweenRequests == hpc = "idle" /\ Tick

PipelineConfigs == {<<1, 1>>}

InitPipeline ==
  /\ variant \in Variants
  /\ \E cfg \in PipelineConfigs : NewRateLimiter(cfg)
  /\ WorkersIdle
  /\ requireHTTPS \in BOOLEAN
  /\ geofence \in GeofenceConfigs(variant)
  /\ PipelineIdle
  /\ Booted

NextPipeline ==
  \/ TickBetweenRequests
  \/ Receive
  \/ HealthCheck
  \/ CheckMethod
  \/ CheckHTTPS
  \/ Identify
  \/ RateLimit
  \/ DecodeBody
  \/ Sanitize
  \/ CheckEmpty
  \/ CheckThreat
  \/ CallValidator
  \/ EvaluateGeofence
  \/ Respond
  \/ Finish

SpecPipeline == InitPipeline /\ [][NextPipeline]_vars

(***************************************************************************)
(* AddressService.ValidateAddress called on its own, as its callers and    *)
(* tests can: every input address, every provider response.                *)
(***************************************************************************)
MaxInputLen == 3

InputAlphabet == {"a", " ", "\t", "#", "<"}

InputStrings(n) == UNION {[1..k -> InputAlphabet] : k \in 0..n}

Repeat(ch, n) == [i \in 1..n |-> ch]

\* addresses at and just over the length cap of sanitizeAddress
LongInputs ==
  {Repeat("a", MaxAddressLen), Repeat("a", MaxAddressLen + 1),
   <<" ">> \o Repeat("a", MaxAddressLen + 1) \o <<" ">>,
   Repeat("a", MaxAddressLen - 1) \o <<" ", "b">>}

\* texts with and without the features the pattern of isSuspicious names
ThreatSamples ==
  {<<"a","a","a","a","a","a">>,
   <<"a","a","a","a","a">>,
   <<"0","x","1","f">>,
   <<"0","x">>,
   <<"s","e","l","e","c","t"," ","a"," ","f","r","o","m"," ","b">>,
   <<"s","e","l","e","c","t","f","r","o","m">>,
   <<"s","c","r","i","p","t">>,
   <<"S","C","R","I","P","T">>,
   <<"a","l","e","r","t","(">>,
   <<"a","l","e","r","t">>,
   <<"f","u","n","c","t","i","o","n">>,
   <<"v","a","r"," ","x">>,
   <<"l","e","t"," ","x">>,
   <<"c","o","n","s","t"," ","x">>,
   <<"v","a","r","i","a","b","l","e">>,
   <<"1"," ","M","a","i","n"," ","S","t">>}

\* white space next to white space or to a character a sanitizer removes
SpacingSamples ==
  {<<"a"," "," ","b">>, <<"a"," ","<"," ","b">>, <<"a"," ","#"," ","b">>}

ServiceInputs ==
  InputStrings(MaxInputLen) \cup LongInputs \cup ThreatSamples
    \cup SpacingSamples

\* s.ValidateAddress(ctx, address) has been entered
InitService ==
  /\ variant \in Variants
  /\ \E cfg \in PipelineConfigs : NewRateLimiter(cfg)
  /\ WorkersIdle
  /\ requireHTTPS = FALSE
  /\ geofence = DefaultGeofence(variant)
  /\ hpc = "sanitize"
  /\ clientIP = 0
  /\ address \in ServiceInputs
  /\ clean = <<>>
  /\ resp = NoResponse
  /\ result = EmptyResult
  /\ err = NilError
  /\ status = 0
  /\ outcome = "none"
  /\ trace = <<>>
  /\ req = NoRequest
  /\ ctxDone = FALSE
  /\ calc = <<>>
  /\ Booted

NextService ==
  \/ Sanitize
  \/ CheckEmpty
  \/ CheckThreat
  \/ CallValidator
  \/ EvaluateGeofence

SpecService == InitService /\ [][NextService]_vars

(***************************************************************************)
(* The adapter's ValidateAddress called on its own with a context that the *)
(* caller may cancel (or whose deadline may pass) while the provider has   *)
(* not answered.                                                           *)
(***************************************************************************)
\* gma.client.Geocode(ctx, r) takes the context;
\* gava.client.V1.ValidateAddress(req).Do() is built without it
ContextBound(v) == v = "slog"

ContextCanceled == [kind |-> "error", msg |-> "context canceled"]

AdapterInputs == {<<>>, <<"a">>}

\* the adapter builds the request and sends it
AdapterCall ==
  /\ hpc = "call"
  /\ LET out == AdapterValidateAddress(variant, clean, NoResponse, geofence) IN
       IF variant = "slog" /\ clean = <<>>
       THEN /\ result' = out.result
            /\ err' = out.err
            /\ hpc' = "returned"
            /\ UNCHANGED trace
       ELSE /\ hpc' = "waiting"
            /\ trace' = Append(trace, "provider")
            /\ UNCHANGED <<result, err>>
  /\ UNCHANGED <<configVars, bootVars, req, ctxDone, calc, requests, clock,
                 workerVars, clientIP, address, clean, resp, status, outcome>>

\* the caller cancels the context, or its deadline passes
ContextDone ==
  /\ hpc \in {"call", "waiting"}
  /\ ~ctxDone
  /\ ctxDone' = TRUE
  /\ UNCHANGED <<configVars, bootVars, req, calc, requests, clock, workerVars,
                 hpc, clientIP, address, clean, resp, result, err, status,
                 outcome, trace>>

\* the provider answers; a client bound to a context that is done no longer
\* delivers the answer
ProviderReturns ==
  /\ hpc = "waiting"
  /\ ~(ContextBound(variant) /\ ctxDone)
  /\ \E r \in ProviderResponses(variant) :
       LET out == AdapterValidateAddress(variant, clean, r, geofence) IN
         /\ resp' = r
         /\ result' = out.result
         /\ err' = out.err
         /\ calc' = AfterAdapterCall(variant, out, geofence, calc)
  /\ hpc' = "returned"
  /\ UNCHANGED <<configVars, bootVars, req, ctxDone, requests, clock,
                 workerVars, clientIP, address, clean, status, outcome,
                 trace>>

\* a client bound to the context gives the call up with the context's error
CallAbandoned ==
  /\ hpc = "waiting"
  /\ ContextBound(variant) /\ ctxDone
  /\ LET out == AdapterValidateAddress(variant, clean, ContextCanceled, geofence) IN
       /\ resp' = ContextCanceled
       /\ result' = out.result
       /\ err' = out.err
  /\ hpc' = "returned"
  /\ UNCHANGED <<configVars, bootVars, req, ctxDone, calc, requests, clock,
                 workerVars, clientIP, address, clean, status, outcome,
                 trace>>

\* adapter.ValidateAddress(ctx, address) has been entered
InitAdapter ==
  /\ variant \in Variants
  /\ \E cfg \in PipelineConfigs : NewRateLimiter(cfg)
  /\ WorkersIdle
  /\ requireHTTPS = FALSE
  /\ geofence \in GeofenceConfigs(variant) \cup {DefaultGeofence(variant)}
  /\ hpc = "call"
  /\ clientIP = 0
  /\ address = <<>>
  /\ clean \in AdapterInputs
  /\ resp = NoResponse
  /\ result = EmptyResult
  /\ err = NilError
  /\ status = 0
  /\ outcome = "none"
  /\ trace = <<>>
  /\ req = NoRequest
  /\ ctxDone = FALSE
  /\ calc = <<>>
  /\ Booted

NextAdapter ==
  \/ AdapterCall
  \/ ContextDone
  \/ ProviderReturns
  \/ CallAbandoned

SpecAdapter == InitAdapter /\ [][NextAdapter]_vars

(***************************************************************************)
(* The distance computations on their own: every unit string, pairs of     *)
(* points, and limits from 0 upwards.                                      *)
(***************************************************************************)
Points == Locations \cup {Origin}

\* result.InRange = gma.calculateDistance(...) <= MaxDistance; the adapter
\* returns result, nil and the service goes on to its own geofence check
AdapterGeofence ==
  /\ hpc = "adaptergeofence"
  /\ result' = [result EXCEPT !.inRange = AdapterCalc(result, geofence).inRange]
  /\ calc' = Append(calc, AdapterCalc(result, geofence))
  /\ hpc' = "geofence"
  /\ UNCHANGED <<configVars, bootVars, req, ctxDone, requests, clock,
                 workerVars, clientIP, address, clean, resp, err, status,
                 outcome, trace>>

\* a match has been resolved and its distance is about to be computed: by
\* GoogleMapsAdapter and then the service, or by the service alone
InitDistance ==
  /\ variant \in Variants
  /\ \E cfg \in PipelineConfigs : NewRateLimiter(cfg)
  /\ WorkersIdle
  /\ requireHTTPS = FALSE
  /\ geofence \in
       [center : Points,
        maxDistance :
          {0, 2 * DistanceScale, 10 * DistanceScale,
           calculateDistance(NearBronx.lat, NearBronx.lng,
                             Bronx.lat, Bronx.lng, UnitKm)},
        unit :
          {UnitKm, UnitMi, <<"M", "I">>, <<"M", "i">>, <<"K", "M">>, <<>>,
           <<"m", "i", "l", "e", "s">>}]
  /\ hpc \in IF variant = "slog" THEN {"adaptergeofence", "geofence"}
              ELSE {"geofence"}
  /\ clientIP = 0
  /\ address = <<>>
  /\ clean = <<"a">>
  /\ resp = NoResponse
  /\ \E f \in FormattedAddresses, p \in Points :
       result = [isValid |-> TRUE, formattedAddress |-> f,
                 latitude |-> p.lat, longitude |-> p.lng,
                 inRange |-> FALSE, error |-> ""]
  /\ err = NilError
  /\ status = 0
  /\ outcome = "none"
  /\ trace = <<"provider">>
  /\ req = NoRequest
  /\ ctxDone = FALSE
  /\ calc = <<>>
  /\ Booted

NextDistance ==
  \/ AdapterGeofence
  \/ EvaluateGeofence

SpecDistance == InitDistance /\ [][NextDistance]_vars

(***************************************************************************)
(* Startup: the constructors main calls, in its order, on an environment.  *)
(*   zap-based code:  NewInfraConfig, NewLoggerConfig, NewRateLimitConfig,  *)
(*                    NewRateLimiter, NewAddressHandler                    *)
(*   slog-based code: LoadConfig, NewRateLimiter, NewAddressHandler        *)
(* A run starts before one of the constructors, with the variables the     *)
(* earlier ones read not set.                                              *)
(***************************************************************************)
\* the environments a run starting before the given constructor is tried on
Environments(stage) ==
  LET ports ==
        {<<>>, <<"a","d","d","_","p","o","r","t">>,  \* "add_port"
               <<"-","1">>,  \* "-1"
               <<"0">>,  \* "0"
               <<"1">>,  \* "1"
               <<"1","0","2","3">>,  \* "1023"
               <<"1","0","2","4">>,  \* "1024"
               <<"3","0","0","0">>,  \* "3000"
               <<"+","3","0","0","0">>,  \* "+3000"
         <<"0","8","0","8","0">>,  \* "08080"
         <<"6","5","5","3","4">>,  \* "65534"
         <<"6","5","5","3","5">>,  \* "65535"
         <<"6","5","5","3","6">>,  \* "65536"
         <<"3","0","0","0"," ">>,  \* "3000 "
         Repeat("9", 20)}
      https == {<<>>, <<"f","a","l","s","e">>,  \* "false"
                      <<"F","A","L","S","E">>,  \* "FALSE"
                      <<"F","a","l","s","e">>,  \* "False"
                      <<"t","r","u","e">>,  \* "true"
                      <<"1">>,  \* "1"
                      <<"n","o">>}  \* "no"
      environments == {<<>>, <<"D","E","V","E","L","O","P","M","E","N","T">>,  \* "DEVELOPMENT"
                             <<"d","e","v","e","l","o","p","m","e","n","t">>,  \* "development"
                             <<"U","A","T">>,  \* "UAT"
                             <<"P","R","O","D","U","C","T","I","O","N">>}  \* "PRODUCTION"
      levels ==
        {<<>>, <<"i","n","f","o">>,  \* "info"
               <<"D","E","B","U","G">>,  \* "DEBUG"
               <<"D","e","b","u","g">>,  \* "Debug"
               <<"d","p","a","n","i","c">>,  \* "dpanic"
               <<"F","A","T","A","L">>,  \* "FATAL"
               <<"t","r","a","c","e">>,  \* "trace"
               <<"W","A","R","N","I","N","G">>}  \* "WARNING"
      encodings == {<<>>, <<"j","s","o","n">>,  \* "json"
                          <<"c","o","n","s","o","l","e">>,  \* "console"
                          <<"J","S","O","N">>,  \* "JSON"
                          <<"x","m","l">>}  \* "xml"
      outputPaths ==
        {<<>>, <<"/","v","a","r","/","l","o","g","/","a","p","p",".","l","o","g">>,  \* "/var/log/app.log"
               <<"/">>,  \* "/"
               <<"C",":","\\","L","o","g","s","\\","a","p","p",".","j","s","o","n">>,  \* "C:\Logs\app.json"
               <<"c",":","/","l","o","g","s">>,  \* "c:/logs"
               <<"C",":">>,  \* "C:"
         <<"l","o","g","s","/","a","p","p",".","l","o","g">>,  \* "logs/app.log"
         <<".","/","a","p","p",".","l","o","g">>,  \* "./app.log"
         <<".",".","/","a","p","p",".","l","o","g">>,  \* "../app.log"
         <<"/","v","a","r","/",".",".","/","e","t","c","/","p","a","s","s","w","d">>,  \* "/var/../etc/passwd"
         <<"s","t","d","o","u","t">>,  \* "stdout"
         <<"s","t","d","e","r","r">>,  \* "stderr"
         <<"S","T","D","O","U","T">>,  \* "STDOUT"
         <<"s","t","d","o","u","t",".","l","o","g">>,  \* "stdout.log"
         <<"c","l","o","u","d","w","a","t","c","h",":","/","/","p","r","o","d","/","l","o","g","s">>,  \* "cloudwatch://prod/logs"
         <<"c","u","s","t","o","m",":","/","/","h","o","s","t",":","1","2","3","4","/","p","a","t","h">>,  \* "custom://host:1234/path"
         <<"S","3",":","/","/","b","u","c","k","e","t">>,  \* "S3://bucket"
         <<"s","3",":","/","/">>,  \* "s3://"
         <<"h","t","t","p",":","/","/","h","o","s","t","/",".",".">>,  \* "http://host/.."
         <<"h","t","t","p",":","/","/","h","o","s","t","/","?","q">>,  \* "http://host/?q"
         <<"/","v","a","r","/","l","o","g","\n","a","p","p">>}  \* "/var/log\napp"
      errorPaths ==
        {<<>>, <<"/","v","a","r","/","l","o","g","/","e","r","r",".","l","o","g">>,  \* "/var/log/err.log"
               <<"s","t","d","e","r","r">>,  \* "stderr"
               <<"S","t","d","E","r","r">>,  \* "StdErr"
               <<"e","r","r",".","l","o","g">>,  \* "err.log"
               <<"C",":","\\",".",".","\\","x">>}  \* "C:\..\x"
      maxRequestsValues ==
        {<<>>, <<"1","0">>,  \* "10"
               <<"1">>,  \* "1"
               <<"5">>,  \* "5"
               <<"+","7">>,  \* "+7"
               <<"0">>,  \* "0"
               <<"-","3">>,  \* "-3"
               <<"a","b","c">>,  \* "abc"
               <<"2",".","5">>,  \* "2.5"
         Repeat("9", 20)}
      timeWindows == {<<>>, <<"6","0">>,  \* "60"
                            <<"3","0">>,  \* "30"
                            <<"1">>,  \* "1"
                            <<"1","2","0">>,  \* "120"
                            <<"0">>,  \* "0"
                            <<"-","5">>,  \* "-5"
                            <<"1","m">>}  \* "1m"
      maxDistances == {<<>>, <<"1","0">>,  \* "10"
                             <<"2",".","5">>,  \* "2.5"
                             <<"0">>,  \* "0"
                             <<"-","1">>,  \* "-1"
                             <<"f","a","r">>}  \* "far"
      units == {<<>>, <<"k","m">>,  \* "km"
                      <<"m","i">>,  \* "mi"
                      <<"M","I">>,  \* "MI"
                      <<"m","i","l","e","s">>}  \* "miles"
  IN  CASE stage = "infra" ->
             {Setenv([PORT |-> p, REQUIRE_HTTPS |-> h, ENVIRONMENT |-> n]) :
                p \in ports, h \in https, n \in environments}
        [] stage = "logger" ->
             {Setenv([LEVEL |-> l, ENCODING |-> c, OUTPUT_PATH |-> o,
                      ERROR_PATH |-> r, ENVIRONMENT |-> n]) :
                l \in levels, c \in encodings, o \in outputPaths,
                r \in errorPaths, n \in {<<>>, <<"D","E","V","E","L","O","P","M","E","N","T">>}}  \* "DEVELOPMENT"
        [] stage = "ratelimit" ->
             {Setenv([RATE_LIMIT_MAX_REQUESTS |-> m,
                      RATE_LIMIT_TIME_WINDOW_SECONDS |-> w]) :
                m \in maxRequestsValues, w \in timeWindows}
        [] stage = "load" ->
             {Setenv([GOOGLE_MAPS_API_KEY |-> k, REQUIRE_HTTPS |-> h,
                      RATE_LIMIT_MAX_REQUESTS |-> m,
                      RATE_LIMIT_TIME_WINDOW_SECONDS |-> w,
                      GEOFENCE_MAX_DISTANCE |-> d,
                      GEOFENCE_DISTANCE_UNIT |-> u]) :
                k \in {<<>>, <<"k","e","y">>}, h \in https, m \in maxRequestsValues,  \* "key"
                w \in timeWindows, d \in maxDistances, u \in units}

requestVars == <<hpc, clientIP, address, clean, resp, result, err, status,
                 outcome, trace, req, ctxDone, calc>>

\* infraConfig := env.NewInfraConfig()
NewInfraConfig ==
  /\ variant = "zap"
  /\ boot = "infra"
  /\ infraConfig' = InfraConfigOf(env)
  /\ boot' = "logger"
  /\ UNCHANGED <<variant, env, loggerConfig, rateLimitConfig, limiterVars,
                 requireHTTPS, geofence, requestVars>>

\* loggerConfig := env.NewLoggerConfig(infraConfig.Environment)
NewLoggerConfig ==
  /\ variant = "zap"
  /\ boot = "logger"
  /\ loggerConfig' = LoggerConfigOf(env, infraConfig.environment)
  /\ boot' = "ratelimit"
  /\ UNCHANGED <<variant, env, infraConfig, rateLimitConfig, limiterVars,
                 requireHTTPS, geofence, requestVars>>

\* rateLimitConfig := env.NewRateLimitConfig(logger): the defaults are
\* MaxRequests 10 and TimeWindow 60 s, and only RATE_LIMIT_MAX_REQUESTS is
\* read
NewRateLimitConfig ==
  /\ variant = "zap"
  /\ boot = "ratelimit"
  /\ rateLimitConfig' =
       [maxRequests |-> PositiveOrDefault(env["RATE_LIMIT_MAX_REQUESTS"],
                                          DefaultMaxRequests),
        timeWindow  |-> DefaultTimeWindow]
  /\ boot' = "limiter"
  /\ UNCHANGED <<variant, env, infraConfig, loggerConfig, limiterVars,
                 requireHTTPS, geofence, requestVars>>

\* cfg, err := config.LoadConfig() of the slog-based code; main exits when
\* GOOGLE_MAPS_API_KEY is not set.  RequireHTTPS is true for "true", "1" and
\* "yes"; both rate-limit variables are read; a positive
\* GEOFENCE_MAX_DISTANCE and any non-empty GEOFENCE_DISTANCE_UNIT replace
\* the defaults.  (Config.Port is a string handed to the listener as it is.)
LoadConfig ==
  /\ variant = "slog"
  /\ boot = "load"
  /\ IF env["GOOGLE_MAPS_API_KEY"] = <<>>
     THEN /\ boot' = "failed"
          /\ UNCHANGED <<infraConfig, rateLimitConfig, geofence>>
     ELSE /\ boot' = "limiter"
          /\ infraConfig' =
               [infraConfig EXCEPT
                  !.isHttpSecure =
                     env["REQUIRE_HTTPS"] \in {<<"t","r","u","e">>,  \* "true"
                                               <<"1">>,  \* "1"
                                               <<"y","e","s">>}]  \* "yes"
          /\ rateLimitConfig' =
               [maxRequests |->
                  PositiveOrDefault(env["RATE_LIMIT_MAX_REQUESTS"],
                                    DefaultMaxRequests),
                timeWindow  |->
                  PositiveOrDefault(env["RATE_LIMIT_TIME_WINDOW_SECONDS"],
                                    DefaultTimeWindow)]
          /\ LET d == ParseFloat(env["GEOFENCE_MAX_DISTANCE"])
                 u == env["GEOFENCE_DISTANCE_UNIT"]
             IN  geofence' =
                   [center      |-> DefaultGeofence("slog").center,
                    maxDistance |->
                      IF env["GEOFENCE_MAX_DISTANCE"] # <<>> /\ d.ok
                           /\ d.val > 0
                      THEN d.val ELSE DefaultGeofence("slog").maxDistance,
                    unit        |->
                      IF u # <<>> THEN u ELSE DefaultGeofence("slog").unit]
  /\ UNCHANGED <<variant, env, loggerConfig, limiterVars, requireHTTPS,
                 requestVars>>

\* rateLimiter := handlers.NewRateLimiter(rateLimitConfig)
StartRateLimiter ==
  /\ boot = "limiter"
  /\ requests' = EmptyMap
  /\ maxRequests' = rateLimitConfig.maxRequests
  /\ timeWindow' = rateLimitConfig.timeWindow
  /\ mu' = NoThread
  /\ boot' = "handler"
  /\ UNCHANGED <<variant, env, infraConfig, loggerConfig, rateLimitConfig,
                 clock, pc, ip, now, validRequests, ret, entry, history,
                 requireHTTPS, geofence, requestVars>>

\* handlers.NewAddressHandler(addressService, rateLimiter, infraConfig, logger)
NewAddressHandler ==
  /\ boot = "handler"
  /\ requireHTTPS' = infraConfig.isHttpSecure
  /\ boot' = "done"
  /\ UNCHANGED <<variant, env, infraConfig, loggerConfig, rateLimitConfig,
                 limiterVars, geofence, requestVars>>

\* before the constructor named by boot: the structs not yet built hold
\* their zero values
InitConfig ==
  /\ variant \in Variants
  /\ boot \in IF variant = "zap" THEN {"infra", "logger", "ratelimit"}
              ELSE {"load"}
  /\ env \in Environments(boot)
  /\ infraConfig =
       IF boot \in {"logger", "ratelimit"} THEN InfraConfigOf(env)
       ELSE [port |-> 0, isHttpSecure |-> FALSE,
             environment |-> ENV_PRODUCTION]
  /\ loggerConfig =
       IF boot = "ratelimit"
       THEN LoggerConfigOf(env, infraConfig.environment)
       ELSE [level |-> <<>>, encoding |-> <<>>, outputPath |-> <<>>,
             errorPath |-> <<>>, isDevelopment |-> FALSE]
  /\ rateLimitConfig = [maxRequests |-> 0, timeWindow |-> 0]
  /\ requests = EmptyMap
  /\ maxRequests = 0
  /\ timeWindow = 0
  /\ mu = NoThread
  /\ WorkersIdle
  /\ requireHTTPS = FALSE
  /\ geofence = IF variant = "zap" THEN DefaultGeofence(variant)
                ELSE [center |-> Origin, maxDistance |-> 0, unit |-> <<>>]
  /\ PipelineIdle

NextConfig ==
  \/ NewInfraConfig
  \/ NewLoggerConfig
  \/ NewRateLimitConfig
  \/ LoadConfig
  \/ StartRateLimiter
  \/ NewAddressHandler

SpecConfig == InitConfig /\ [][NextConfig]_vars

(***************************************************************************)
(* Properties of the rate limiter.                                         *)
(***************************************************************************)
InCriticalSection(t) == pc[t] \in {"now", "prune", "store", "check", "unlock"}

CallsOf(c) == SelectSeq(history, LAMBDA h : h.ip = c)

\* The claim's wording of pruning: every timestamp older than the window
\* (relative to nowv) removed, the others kept in order.
NotOlderThanWindow(stored, nowv) ==
  SelectSeq(stored, LAMBDA x : ~(nowv - x > timeWindow))

\* C1: under any interleaving of concurrent Allow calls, every admission of
\* a client at time `now` has at most maxRequests admissions of that client
\* (itself included) in the window ending at `now`, and the
\* read-prune-check-append sequences of two calls never overlap.
C1_NoOverAdmission ==
  /\ \A i \in 1..Len(history) :
        history[i].ok =>
          Cardinality({j \in 1..i : /\ history[j].ip = history[i].ip
                                    /\ history[j].ok
                                    /\ history[i].t - history[j].t <= timeWindow})
            <= maxRequests
  /\ Cardinality({t \in Threads : InCriticalSection(t)}) <= 1

\* Two workers contend for the last free slot of the same client.
C1_Witness ==
  \E t1, t2 \in Threads :
    /\ t1 # t2
    /\ pc[t1] = "lock"
    /\ pc[t2] = "check"
    /\ ip[t1] = ip[t2]
    /\ Len(validRequests[t2]) = maxRequests - 1
    /\ Len(validRequests[t2]) >= 1

\* C2: a client's first calls, as long as they fall inside one window
\* counted from its first call, are admitted exactly when they are among
\* the first maxRequests; a call made after the window has elapsed since
\* every earlier admission is admitted again.
C2_BurstThenRecover ==
  \A c \in ClientIds :
    LET h == CallsOf(c) IN
      \A k \in 1..Len(h) :
        /\ (h[k].t - h[1].t <= timeWindow) => (h[k].ok <=> k <= maxRequests)
        /\ (\A j \in 1..(k-1) : h[j].ok => h[k].t - h[j].t > timeWindow)
             => h[k].ok

\* With the default configuration: ten admissions, the eleventh call inside
\* the 60 second window rejected, and a later call admitted again.
C2_Witness ==
  /\ maxRequests = DefaultMaxRequests
  /\ timeWindow = DefaultTimeWindow
  /\ \E c \in ClientIds :
       LET h == CallsOf(c) IN
         /\ Len(h) = DefaultMaxRequests + 2
         /\ \A k \in 1..DefaultMaxRequests : h[k].ok
         /\ ~h[DefaultMaxRequests + 1].ok
         /\ h[DefaultMaxRequests + 1].t - h[1].t <= DefaultTimeWindow
         /\ h[DefaultMaxRequests + 2].ok

\* C4: when the pruned count is >= maxRequests, Allow returns false, stores
\* back exactly the pruned sequence of that client (nothing appended) and
\* leaves every other client's sequence as it was.
C4_RejectStoresPruned ==
  \A t \in Threads :
    pc[t] = "unlock" =>
      LET pruned == NotOlderThanWindow(MapGet(entry[t], ip[t]), now[t]) IN
        Len(pruned) >= maxRequests =>
          /\ ret[t] = FALSE
          /\ requests = MapPut(entry[t], ip[t], pruned)

\* A rejection of a client at its limit while another client has entries.
C4_Witness ==
  \E t \in Threads :
    /\ pc[t] = "unlock"
    /\ ~ret[t]
    /\ Len(MapGet(requests, ip[t])) = maxRequests
    /\ \E c \in DOMAIN requests : c # ip[t] /\ requests[c] # <<>>

\* C5: right after Allow(c) made at `now` completes, every stored time of c
\* is <= now and within timeWindow of now, and the sequence is in
\* non-decreasing order.
C5_WindowInvariant ==
  \A t \in Threads :
    pc[t] = "unlock" =>
      LET s == MapGet(requests, ip[t]) IN
        /\ \A i \in 1..Len(s) : s[i] <= now[t] /\ now[t] - s[i] <= timeWindow
        /\ \A i \in 1..(Len(s) - 1) : s[i] <= s[i + 1]

\* An admitted call that dropped an expired time and kept a live one.
C5_Witness ==
  \E t \in Threads :
    /\ pc[t] = "unlock"
    /\ ret[t]
    /\ Len(validRequests[t]) < Len(MapGet(entry[t], ip[t]))
    /\ Len(validRequests[t]) >= 1

\* C6: the key set of the client map only grows, and every client ever
\* passed to Allow (admitted or rejected) stays a key, even while its
\* pruned sequence is empty.
C6_KeysNeverRemoved ==
  /\ [][DOMAIN requests \subseteq DOMAIN requests']_vars
  /\ [](/\ \A i \in 1..Len(history) : history[i].ip \in DOMAIN requests
        /\ \A t \in Threads :
             pc[t] \in {"check", "unlock"} => ip[t] \in DOMAIN requests)

\* A returning client whose whole sequence was pruned: the key is kept with
\* an empty sequence.
C6_Witness ==
  \E t \in Threads :
    /\ pc[t] = "check"
    /\ ip[t] \in DOMAIN requests
    /\ requests[ip[t]] = <<>>
    /\ MapGet(entry[t], ip[t]) # <<>>
    /\ \E i \in 1..Len(history) : history[i].ip = ip[t] /\ ~history[i].ok


(***************************************************************************)
(* Properties of the request pipeline.                                     *)
(***************************************************************************)
AllowEvents == {"allow=true", "allow=false"}

Occurrences(events) == Cardinality({i \in 1..Len(trace) : trace[i] \in events})

Happened(event) == \E i \in 1..Len(trace) : trace[i] = event

\* ended by the method or HTTPS check, or routed to /health
RejectedEarly == outcome \in {"MethodNotAllowed", "HTTPSRequired", "Health"}

PastAdmission ==
  hpc \notin {"idle", "health", "method", "https", "identity", "ratelimit"}

\* C3 as stated: every handled request has called Allow exactly once, as
\* its first step, and a rejection by Allow ends the request as RateLimited
\* with nothing else run.
C3_AllowOncePerRequest ==
  /\ (hpc = "done" /\ req.path = "/validate") =>
       Occurrences(AllowEvents) = 1 /\ trace[1] \in AllowEvents
  /\ Happened("allow=false") => trace = <<"allow=false">> /\ outcome = "RateLimited"

\* C3 amended: Allow is called exactly once for every POST request that
\* passed the HTTPS check and never for a request rejected by the method or
\* HTTPS check; it precedes body parsing, sanitizing, threat detection and
\* the provider call; when it returns false the request ends as RateLimited
\* (429) and none of those later steps runs.
C3_AllowBeforeProcessing ==
  /\ Occurrences(AllowEvents) <= 1
  /\ trace # <<>> => trace[1] \in AllowEvents
  /\ RejectedEarly => trace = <<>>
  /\ (PastAdmission /\ ~RejectedEarly) => Occurrences(AllowEvents) = 1
  /\ Happened("allow=false") =>
       /\ trace = <<"allow=false">>
       /\ hpc = "done"
       /\ outcome = "RateLimited"
       /\ status = StatusTooManyRequests
       /\ address = <<>> /\ clean = <<>> /\ resp = NoResponse
       /\ result = EmptyResult

\* A client over its quota was turned away.
C3_Witness ==
  /\ hpc = "done"
  /\ outcome = "RateLimited"
  /\ Len(MapGet(requests, clientIP)) = maxRequests

HasNonSpace(str) == \E i \in 1..Len(str) : str[i] \notin WhiteSpace

\* C7: an address that is empty after sanitizing ends as EmptyAddress
\* (isValid=false, error "address is empty", ErrEmptyAddress) without the
\* external validator being invoked, and the validator is only ever invoked
\* with text that has at least one non-whitespace character.
C7_EmptyNeverReachesValidator ==
  /\ (Happened("sanitize") /\ clean = <<>> /\ hpc \in {"respond", "done"}) =>
       /\ outcome = "EmptyAddress"
       /\ ~result.isValid
       /\ result.error = "address is empty"
       /\ err = ErrEmptyAddress
       /\ ~Happened("provider")
  /\ (hpc = "provider" \/ Happened("provider")) => HasNonSpace(clean)

\* C8: every request whose sanitized text matches the threat pattern ends
\* as SuspiciousInput (isValid=false, ErrSuspiciousPattern) and never reaches
\* the provider; the <script>alert(1)</script> address is such a request.
C8_SuspiciousNeverReachesProvider ==
  /\ MatchesSuspiciousPattern(sanitizeAddress(variant, ScriptInput))
  /\ (hpc = "done" /\ Happened("sanitize")
        /\ MatchesSuspiciousPattern(clean)) =>
       /\ outcome = "SuspiciousInput"
       /\ ~result.isValid
       /\ err = ErrSuspiciousPattern
       /\ ~Happened("provider")

\* C9: the provider is invoked at most once per request; when the
\* invocation fails the request ends at once with isValid=false, the
\* provider's message in the error field, a non-nil error, and no geofence
\* evaluation (inRange stays false).
C9_ProviderFailureIsTerminal ==
  /\ Occurrences({"provider"}) <= 1
  /\ resp.kind = "error" =>
       /\ hpc \in {"respond", "done"}
       /\ outcome = "ValidatorError"
       /\ ~result.isValid
       /\ result.error = "Failed to validate address: " \o resp.msg
       /\ err # NilError
       /\ ~result.inRange
       /\ ~Happened("geofence")
       /\ trace[Len(trace)] = "provider"
       /\ hpc = "done" => status = StatusBadRequest

\* A provider failure was reported to the caller.
C9_Witness ==
  /\ hpc = "done"
  /\ resp.kind = "error"
  /\ status = StatusBadRequest

\* the provider answered, and found nothing for the address
NoMatch(r) ==
  \/ r.kind = "results" /\ r.results = <<>>
  \/ r.kind = "noverdict"
  \/ /\ r.kind = "verdict"
     /\ r.granularity = GranOther
     /\ r.inputGranularity = GranOther
     /\ ~r.complete

\* C10: when the provider finds no match the request ends as
\* AddressNotFound: isValid=false, empty formatted address, zero
\* coordinates, inRange=false, a non-empty error string and a non-nil error.
C10_NoMatchIsFailure ==
  (hpc \in {"respond", "done"} /\ NoMatch(resp)) =>
    /\ ~result.isValid
    /\ result.formattedAddress = ""
    /\ result.latitude = 0 /\ result.longitude = 0
    /\ ~result.inRange
    /\ result.error # ""
    /\ err # NilError
    /\ hpc = "done" => status = StatusBadRequest

(***************************************************************************)
(* Properties of the geofence step.                                        *)
(***************************************************************************)
\* the distance between the resolved coordinates and the configured center
ResolvedDistance ==
  calculateDistance(result.latitude, result.longitude,
                    geofence.center.lat, geofence.center.lng, geofence.unit)

\* C11: the geofence is evaluated only after the provider returned a valid
\* match without an error; it then sets inRange to exactly
\* (distance(resolved, center) <= maxDistance), the boundary included; a
\* result that is not valid never has the geofence evaluated, and in every
\* state inRange = TRUE implies isValid = TRUE.
C11_GeofenceOnlyWhenValid ==
  /\ hpc = "geofence" => Happened("provider") /\ err = NilError
  /\ Happened("geofence") =>
       /\ Happened("provider")
       /\ resp # NoResponse
       /\ result.isValid
       /\ err = NilError
       /\ result.inRange = (ResolvedDistance <= geofence.maxDistance)
  /\ (hpc \in {"respond", "done"} /\ ~result.isValid) => ~Happened("geofence")
  /\ result.inRange => result.isValid

\* a valid match exactly on the boundary has been evaluated as in range
C11_Witness ==
  /\ hpc = "done"
  /\ Happened("geofence")
  /\ ResolvedDistance = geofence.maxDistance
  /\ ResolvedDistance > 0
  /\ result.inRange

\* C12: a valid address that resolves outside the geofence is a success:
\* isValid = TRUE with the provider's formatted address and coordinates,
\* inRange = FALSE, an empty error string, no error signalled (status 200);
\* ErrOutsideGeofence is never returned.
C12_OutsideGeofenceIsSuccess ==
  /\ err # ErrOutsideGeofence
  /\ result.error # ErrOutsideGeofence
  /\ (hpc \in {"respond", "done"} /\ result.isValid
        /\ ResolvedDistance > geofence.maxDistance) =>
       /\ outcome = "Validated"
       /\ ~result.inRange
       /\ result.error = ""
       /\ err = NilError
       /\ resp.kind \in {"verdict", "results"}
       /\ IF resp.kind = "verdict"
          THEN /\ result.formattedAddress = resp.formatted
               /\ result.latitude = resp.location.lat
               /\ result.longitude = resp.location.lng
          ELSE /\ result.formattedAddress = resp.results[1].formatted
               /\ result.latitude = resp.results[1].location.lat
               /\ result.longitude = resp.results[1].location.lng
       /\ hpc = "done" => status = StatusOK

\* a request answered 200 with a valid address outside the geofence
C12_Witness ==
  /\ hpc = "done"
  /\ status = StatusOK
  /\ result.isValid
  /\ result.formattedAddress # ""
  /\ ResolvedDistance > geofence.maxDistance
  /\ ~result.inRange
  /\ result.error = ""
  /\ err = NilError
(***************************************************************************)
(* Properties of the outcomes.                                             *)
(***************************************************************************)
\* the request got as far as the rate limiter and was not a malformed body
EnteredPipeline ==
  outcome = "RateLimited" \/ Happened("sanitize")

\* C13: every request that enters the pipeline ends in exactly one of
\* RateLimited, EmptyAddress, SuspiciousInput, AddressNotFound /
\* ProviderError (the validator's error) or success; every outcome with
\* isValid = FALSE carries a non-empty error string and is signalled as a
\* failure (non-nil error, non-2xx status); a success has an empty error
\* string.
C13_OutcomesAreSignalled ==
  (hpc = "done" /\ EnteredPipeline) =>
    /\ outcome \in {"RateLimited", "EmptyAddress", "SuspiciousInput",
                     "ValidatorError", "Validated"}
    /\ outcome = "RateLimited" => status = StatusTooManyRequests
    /\ (outcome # "RateLimited" /\ ~result.isValid) =>
         /\ result.error # ""
         /\ err # NilError
         /\ status \notin {0, StatusOK}
    /\ result.isValid =>
         /\ outcome = "Validated"
         /\ result.error = ""
         /\ err = NilError
         /\ status = StatusOK

\* C14: for every input address and provider response
\* AddressService.ValidateAddress returns a result and an error signal and
\* never panics, pattern compilation in sanitizeAddress and isSuspicious
\* included.
C14_NeverPanics ==
  /\ outcome # "Panic"
  /\ Happened("threat") => hpc # "done"

\* C15: the provider call is bound to the caller's context: once the
\* context is cancelled or past its deadline while the call is outstanding,
\* the call is abandoned and what the adapter returns is a provider error.
C15_CancelledCallFails ==
  (hpc = "returned" /\ ctxDone /\ Happened("provider")) =>
    /\ resp.kind = "error"
    /\ err # NilError
    /\ ~result.isValid

Sanitized == Happened("sanitize")

IsTrimmedAndCollapsed(str) ==
  /\ str # <<>> => str[1] \notin WhiteSpace /\ str[Len(str)] \notin WhiteSpace
  /\ \A i \in 1..(Len(str) - 1) :
       ~(str[i] \in WhiteSpace /\ str[i + 1] \in WhiteSpace)

\* C18: for every input the output of sanitizeAddress is at most 200
\* characters long and has no character outside letters, digits,
\* underscore, white space, comma, period and hyphen.
C18_SanitizedIsBoundedAndClean ==
  Sanitized =>
    /\ Len(clean) <= MaxAddressLen
    /\ \A i \in 1..Len(clean) : clean[i] \in AllowedChars

\* C19: for every input the output of sanitizeAddress has no leading or
\* trailing white space and no run of two or more white-space characters,
\* also when disallowed characters stood between or next to white space.
C19_SanitizedIsNormalized ==
  Sanitized => IsTrimmedAndCollapsed(clean)

\* C20: the threat detector answers suspicious = TRUE exactly for the texts
\* that contain, case-insensitively, one character six or more times in a
\* row, 0x and a hex digit, select ... from separated by white space,
\* script, alert( or function, or var / let / const followed by white
\* space; it answers FALSE for every other text.
C20_DetectorMatchesPatterns ==
  Happened("threat") =>
    IF MatchesSuspiciousPattern(clean)
    THEN outcome = "SuspiciousInput" /\ err = ErrSuspiciousPattern
    ELSE outcome = "none" /\ hpc = "provider"
(***************************************************************************)
(* Properties of the distance computations.                                *)
(***************************************************************************)
Computations == {calc[i] : i \in 1..Len(calc)}

\* C21: every distance computation that feeds inRange multiplies by the
\* radius 3958.8 (miles) exactly when the configured unit is "mi" in any
\* letter case, and by 6371.0 (kilometers) for every other unit string, the
\* empty one included.
C21_RadiusByUnit ==
  \A e \in Computations :
    e.radius = IF ToLower(e.unit) = UnitMi THEN earthRadiusMi ELSE earthRadiusKm

ManhattanComputations ==
  {e \in Computations :
     /\ e.point = Manhattan /\ e.center = Bronx
     /\ e.unit = UnitKm /\ e.maxDistance = 10 * DistanceScale}

\* C23 (as stated): with center (40.8448, -73.8648), maxDistance 10 and
\* unit km, a match in Manhattan (40.7128, -74.0060) has a computed
\* distance of about 14.4 km (here: within 1 km of it) and so is valid and
\* not in range.
C23_ManhattanAbout14km ==
  \A e \in ManhattanComputations :
    /\ Abs(e.distance - (144 * DistanceScale) \div 10) <= DistanceScale
    /\ ~e.inRange
    /\ result.isValid /\ ~result.inRange

\* C23 (amended): the computed distance is about 18.9 km (within 0.1 km of
\* it); the match is valid and not in range.
C23_ManhattanAbout19km ==
  \A e \in ManhattanComputations :
    /\ Abs(e.distance - (189 * DistanceScale) \div 10) <= DistanceScale \div 10
    /\ e.distance > e.maxDistance
    /\ ~e.inRange
    /\ result.isValid /\ ~result.inRange

\* the adapter has returned a match in Manhattan, valid and out of range
C23_Witness ==
  /\ hpc = "returned"
  /\ ManhattanComputations # {}
  /\ result.isValid /\ ~result.inRange
  /\ result.latitude = Manhattan.lat /\ result.longitude = Manhattan.lng
  /\ err = NilError

\* C28: in the slog-based pipeline the inRange set by
\* GoogleMapsAdapter.ValidateAddress equals the inRange that
\* AddressService.ValidateAddress assigns afterwards, for every configured
\* (non-empty) unit string, point, center and limit: both multiply by the
\* same radius.
C28_AdapterAndServiceAgree ==
  \A a \in Computations, b \in Computations :
    (a.by = "adapter" /\ b.by = "service" /\ a.unit # <<>>) =>
      /\ a.radius = b.radius
      /\ a.distance = b.distance
      /\ a.inRange = b.inRange

(***************************************************************************)
(* Claims about the configuration read at startup.                         *)
(***************************************************************************)
InfraConfigBuilt == variant = "zap" /\ boot \notin {"infra", "load"}

\* C24: the port NewInfraConfig returns is the PORT value exactly when that
\* value parses as an integer in 1024..65534, and the default 8080 for every
\* other value; it is always in 1024..65534.
C24_PortValidated ==
  InfraConfigBuilt =>
    LET num == Atoi(env["PORT"])
    IN  /\ infraConfig.port \in 1024..65534
        /\ infraConfig.port =
             IF num.ok /\ num.val \in 1024..65534 THEN num.val ELSE 8080

C24_Witness ==
  /\ InfraConfigBuilt
  /\ env["PORT"] = <<"6", "5", "5", "3", "4">>
  /\ infraConfig.port = 65534

\* C25: IsHttpSecure is false only for REQUIRE_HTTPS = "false", and
\* Environment is ENV_DEVELOPMENT only for ENVIRONMENT = "DEVELOPMENT".
C25_InfraFailsSafe ==
  InfraConfigBuilt =>
    /\ infraConfig.isHttpSecure = (env["REQUIRE_HTTPS"] # <<"f", "a", "l", "s", "e">>)
    /\ infraConfig.environment =
         IF env["ENVIRONMENT"] = <<"D", "E", "V", "E", "L", "O", "P", "M", "E", "N", "T">>
         THEN ENV_DEVELOPMENT ELSE ENV_PRODUCTION

C25_Witness ==
  /\ InfraConfigBuilt
  /\ env["REQUIRE_HTTPS"] = <<"f", "a", "l", "s", "e">>
  /\ ~infraConfig.isHttpSecure
  /\ env["ENVIRONMENT"] = <<"D", "E", "V", "E", "L", "O", "P", "M", "E", "N", "T">>
  /\ infraConfig.environment = ENV_DEVELOPMENT

LoggerConfigBuilt == variant = "zap" /\ boot \notin {"infra", "logger", "load"}

KnownLevels ==
  {<<"d", "e", "b", "u", "g">>, <<"i", "n", "f", "o">>, <<"w", "a", "r", "n">>, <<"e", "r", "r", "o", "r">>, <<"d", "p", "a", "n", "i", "c">>, <<"p", "a", "n", "i", "c">>, <<"f", "a", "t", "a", "l">>}

AllUpper(s) == \A i \in DOMAIN s : s[i] \in Range(UpperLetters)

IsKnownLevel(s) ==
  s \in KnownLevels \/ (AllUpper(s) /\ ToLower(s) \in KnownLevels)

\* an absolute Unix path, a Windows drive path, stdout, stderr or a
\* scheme:// URL
IsListedPathForm(s) ==
  \/ s # <<>> /\ s[1] = "/"
  \/ /\ Len(s) >= 3 /\ s[2] = ":" /\ s[3] \in {"\\", "/"}
     /\ s[1] \in Range(UpperLetters) \cup Range(LowerLetters)
  \/ s \in {<<"s", "t", "d", "o", "u", "t">>, <<"s", "t", "d", "e", "r", "r">>}
  \/ \E k \in 1..(Len(s) - 3) :
       /\ \A i \in 1..k :
            s[i] \in Range(UpperLetters) \cup Range(LowerLetters)
       /\ SubSeq(s, k + 1, k + 3) = <<":", "/", "/">>

ValidatedOrDefault(value, input, valid, default) ==
  (value = input /\ valid) \/ value = default

\* C26: every LoggerConfig field is the environment value, which then passed
\* its validation, or the default; a path passes only in one of the listed
\* forms and without ".."; IsDevelopment is true exactly when the
\* environment is not ENV_PRODUCTION.
C26_LoggerFieldsValidated ==
  LoggerConfigBuilt =>
    /\ ValidatedOrDefault(loggerConfig.level, env["LEVEL"],
                          IsKnownLevel(env["LEVEL"]), <<"i", "n", "f", "o">>)
    /\ ValidatedOrDefault(loggerConfig.encoding, env["ENCODING"],
                          env["ENCODING"] \in {<<"j", "s", "o", "n">>, <<"c", "o", "n", "s", "o", "l", "e">>}, <<"j", "s", "o", "n">>)
    /\ ValidatedOrDefault(loggerConfig.outputPath, env["OUTPUT_PATH"],
                          /\ IsListedPathForm(env["OUTPUT_PATH"])
                          /\ ~ContainsDotDot(env["OUTPUT_PATH"]),
                          <<"s", "t", "d", "o", "u", "t">>)
    /\ ValidatedOrDefault(loggerConfig.errorPath, env["ERROR_PATH"],
                          /\ IsListedPathForm(env["ERROR_PATH"])
                          /\ ~ContainsDotDot(env["ERROR_PATH"]),
                          <<"s", "t", "d", "e", "r", "r">>)
    /\ loggerConfig.isDevelopment = (infraConfig.environment # ENV_PRODUCTION)

IsPositiveInteger(s) == Atoi(s).ok /\ Atoi(s).val > 0

\* C29: the limiter built at startup has maxRequests = RATE_LIMIT_MAX_REQUESTS
\* when that is a positive integer and 10 otherwise, timeWindow =
\* RATE_LIMIT_TIME_WINDOW_SECONDS seconds when that is a positive integer and
\* 60 otherwise, and always maxRequests >= 1 and timeWindow > 0.
C29_LimiterFollowsEnvironment ==
  boot \in {"handler", "done"} =>
    /\ maxRequests =
         IF IsPositiveInteger(env["RATE_LIMIT_MAX_REQUESTS"])
         THEN Atoi(env["RATE_LIMIT_MAX_REQUESTS"]).val ELSE 10
    /\ timeWindow =
         IF IsPositiveInteger(env["RATE_LIMIT_TIME_WINDOW_SECONDS"])
         THEN Atoi(env["RATE_LIMIT_TIME_WINDOW_SECONDS"]).val ELSE 60
    /\ maxRequests >= 1
    /\ timeWindow > 0

(***************************************************************************)
(* Claims about the partition of the rate-limit state by client.           *)
(***************************************************************************)
\* the decisions a limiter takes that is only ever called at the times of
\* the given calls, starting from the stored times given
RECURSIVE ReplayAlone(_, _)
ReplayAlone(calls, stored) ==
  IF calls = <<>> THEN <<>>
  ELSE LET valid == PruneRequests(stored, Head(calls).t, timeWindow)
           ok    == ~LimitExceeded(valid, maxRequests)
       IN  <<ok>> \o ReplayAlone(Tail(calls),
                                 IF ok THEN Append(valid, Head(calls).t)
                                 ELSE valid)

\* C27: what Allow(c) returns depends only on the times of the earlier
\* Allow(c) calls of the same client: the decisions taken for c, amid any
\* calls of other clients, are those of a limiter that saw c's calls alone.
C27_PartitionedByClient ==
  \A c \in ClientIds :
    [i \in 1..Len(CallsOf(c)) |-> CallsOf(c)[i].ok]
      = ReplayAlone(CallsOf(c), <<>>)

\* one client is admitted and then refused, and another client's call,
\* decided after both, is admitted
C27_Witness ==
  \E i, j, k \in DOMAIN history :
    /\ i < j /\ j < k
    /\ history[i].ip = history[j].ip
    /\ history[k].ip # history[i].ip
    /\ history[i].ok
    /\ ~history[j].ok
    /\ history[k].ok

\* C30: sanitizeAddress is idempotent: applied to its own output it returns
\* that output unchanged.
C30_SanitizeIsIdempotent ==
  Sanitized => sanitizeAddress(variant, clean) = clean

====
